---- MODULE Spec2Model ----
(***************************************************************************)
(* Model of the PreExec coherence sensor (packages/interoception).        *)
(*                                                                         *)
(* createPreExecSensor builds one sensor: a ring buffer `readings` and     *)
(* two operations, measure(tick) and history(n).  measure is an async      *)
(* function; every `await` in it is a suspension point, so the model has   *)
(* one action per synchronous run of code between two suspension points    *)
(* and one action per collaborator completion (a state accessor, the       *)
(* embedder, a scalar metric, the onReading callback).                     *)
(*                                                                         *)
(* JavaScript numbers are modelled as exact rationals [num, den]; the      *)
(* model therefore says nothing about floating-point rounding.             *)
(***************************************************************************)
EXTENDS Integers, Sequences, FiniteSets, TLC

----------------------------------------------------------------------------
\* Bounds of the model

\* number of ticks the clock delivers, i.e. of measure() calls per behaviour
MaxCalls == 2
\* largest historySize a sensor is created with
MaxHistory == 2
\* largest count passed to history(n)
MaxCount == 2
\* metric values passed to computeCoherenceIndex are the multiples of 1/MaxSteps in [0,1]
MaxSteps == 2
\* the indices passed to classifyBand are the multiples of 1/BandSteps from
\* -1/BandSteps to 1 + 1/BandSteps, and the thresholds themselves
BandSteps == 20
\* longest list of embeddings passed to a built-in metric function
MaxEmbeddings == 2

----------------------------------------------------------------------------
\* Exact rational arithmetic (the number type)

Abs(x) == IF x < 0 THEN -x ELSE x

RECURSIVE Gcd(_, _)
Gcd(a, b) == IF b = 0 THEN a ELSE Gcd(b, a % b)

\* the rational n/d in lowest terms, d # 0
Rat(n, d) ==
  LET g == Gcd(Abs(n), Abs(d))
      s == IF d < 0 THEN -1 ELSE 1
  IN  [num |-> (s * n) \div g, den |-> (s * d) \div g]

Zero == Rat(0, 1)
One == Rat(1, 1)

RAdd(a, b) == Rat(a.num * b.den + b.num * a.den, a.den * b.den)
RSub(a, b) == Rat(a.num * b.den - b.num * a.den, a.den * b.den)
RMul(a, b) == Rat(a.num * b.num, a.den * b.den)
RDiv(a, b) == Rat(a.num * b.den, a.den * b.num)
RLt(a, b) == a.num * b.den < b.num * a.den
RLe(a, b) == a.num * b.den <= b.num * a.den
RMax(a, b) == IF RLt(a, b) THEN b ELSE a
RMin(a, b) == IF RLt(b, a) THEN b ELSE a

RECURSIVE RSum(_)
RSum(s) == IF s = <<>> THEN Zero ELSE RAdd(Head(s), RSum(Tail(s)))

\* Math.max(...values) of a non-empty list
RECURSIVE MaxOf(_)
MaxOf(s) == IF Len(s) = 1 THEN s[1] ELSE RMax(s[1], MaxOf(Tail(s)))

\* Math.sqrt, on the perfect squares the model's vectors produce
Sqrt(n) == CHOOSE r \in 0..n : r * r = n

----------------------------------------------------------------------------
\* metrics/util.ts: vector utilities.  A vector is a sequence of integers.

RECURSIVE dot(_, _)
dot(a, b) == IF a = <<>> THEN 0 ELSE a[1] * b[1] + dot(Tail(a), Tail(b))

magnitude(v) == Sqrt(dot(v, v))

cosineSimilarity(a, b) ==
  LET magA == magnitude(a)
      magB == magnitude(b)
  IN  IF magA = 0 \/ magB = 0 THEN Zero ELSE Rat(dot(a, b), magA * magB)

clamp01(v) == RMax(Zero, RMin(One, v))

mean(values) ==
  IF Len(values) = 0 THEN Zero ELSE RDiv(RSum(values), Rat(Len(values), 1))

----------------------------------------------------------------------------
\* The four built-in metric computations

\* Seeded fault for C29: the test for empty lists is missing, so the mean of
\* no similarities (0, or -Infinity by Math.max()) is subtracted from 1
computeGoalDriftUnguarded(goalEmbeddings, contextEmbeddings) ==
  IF Len(goalEmbeddings) = 0 \/ Len(contextEmbeddings) = 0 THEN One
  ELSE LET sims == [c \in 1..Len(contextEmbeddings) |->
                      MaxOf([g \in 1..Len(goalEmbeddings) |->
                        cosineSimilarity(goalEmbeddings[g], contextEmbeddings[c])])]
       IN  clamp01(RSub(One, mean(sims)))

computeGoalDrift(goalEmbeddings, contextEmbeddings) ==
  IF Len(goalEmbeddings) = 0 \/ Len(contextEmbeddings) = 0 THEN Zero
  ELSE LET sims == [c \in 1..Len(contextEmbeddings) |->
                      MaxOf([g \in 1..Len(goalEmbeddings) |->
                        cosineSimilarity(goalEmbeddings[g], contextEmbeddings[c])])]
       IN  clamp01(RSub(One, mean(sims)))

computeMemoryRetention(goalEmbeddings, memoryEmbeddings) ==
  IF Len(goalEmbeddings) = 0 \/ Len(memoryEmbeddings) = 0 THEN Zero
  ELSE LET retentions == [g \in 1..Len(goalEmbeddings) |->
                            MaxOf([m \in 1..Len(memoryEmbeddings) |->
                              cosineSimilarity(goalEmbeddings[g], memoryEmbeddings[m])])]
       IN  clamp01(mean(retentions))

\* the pairs (i, j), i < j, of a list of n embeddings
Pairs(n) == {p \in (1..n) \X (1..n) : p[1] < p[2]}

\* default value of computeContradictionPressure's threshold parameter
ContradictionThreshold == Rat(3, 10)

computeContradictionPressure(contextEmbeddings) ==
  LET n == Len(contextEmbeddings)
      totalPairs == Cardinality(Pairs(n))
      lowSimPairs == Cardinality({p \in Pairs(n) :
                        RLt(cosineSimilarity(contextEmbeddings[p[1]], contextEmbeddings[p[2]]),
                            ContradictionThreshold)})
  IN  IF n < 2 THEN Zero ELSE clamp01(Rat(lowSimPairs, totalPairs))

RECURSIVE SumOver(_, _)
SumOver(S, f) ==
  IF S = {} THEN Zero
  ELSE LET x == CHOOSE y \in S : TRUE IN RAdd(f[x], SumOver(S \ {x}, f))

computeSemanticDiffusion(contextEmbeddings) ==
  LET n == Len(contextEmbeddings)
      distances == [p \in Pairs(n) |->
                      RSub(One, cosineSimilarity(contextEmbeddings[p[1]], contextEmbeddings[p[2]]))]
  IN  IF n < 2 THEN Zero
      ELSE clamp01(RDiv(SumOver(Pairs(n), distances), Rat(Cardinality(Pairs(n)), 1)))

----------------------------------------------------------------------------
\* metrics/coherence-index.ts

DEFAULT_INVERTED == {"goalDrift", "contradictionPressure", "semanticDiffusion"}

\* the value undefined: of an optional flag, and (UndefinedNumber) of a
\* numeric slot such as a weight that is present with no value
Undefined == "undefined"
UndefinedNumber == [num |-> 0, den |-> 0]

\* the keys of `weights` that contribute: weight defined and non-zero, and
\* the snapshot has a value for the key
Weighted(metrics, weights) ==
  {k \in DOMAIN weights :
      /\ weights[k] # UndefinedNumber
      /\ weights[k] # Zero
      /\ k \in DOMAIN metrics}

\* Seeded fault for C20: the plain mean of the snapshot, weights ignored
computeCoherenceIndexMeanOfAll(metrics, weights, invertedMetrics) ==
  LET keys == DOMAIN metrics
      contrib == [k \in keys |->
                    IF k \in invertedMetrics THEN RSub(One, metrics[k]) ELSE metrics[k]]
  IN  IF keys = {} THEN One
      ELSE clamp01(RDiv(SumOver(keys, contrib), Rat(Cardinality(keys), 1)))

\* Seeded fault for C17: the weighted sum is returned as it is
computeCoherenceIndexUnnormalised(metrics, weights, invertedMetrics) ==
  LET keys == Weighted(metrics, weights)
      contrib == [k \in keys |->
                    RMul(IF k \in invertedMetrics THEN RSub(One, metrics[k]) ELSE metrics[k],
                         weights[k])]
  IN  SumOver(keys, contrib)

\* Seeded fault for C18: no weighted metric is read as no coherence
computeCoherenceIndexZeroWhenEmpty(metrics, weights, invertedMetrics) ==
  LET keys == Weighted(metrics, weights)
      contrib == [k \in keys |->
                    RMul(IF k \in invertedMetrics THEN RSub(One, metrics[k]) ELSE metrics[k],
                         weights[k])]
      weightedSum == SumOver(keys, contrib)
      totalWeight == SumOver(keys, [k \in keys |-> weights[k]])
  IN  IF totalWeight = Zero THEN Zero ELSE clamp01(RDiv(weightedSum, totalWeight))

\* Seeded fault for C19: a snapshot entry without a weight counts with weight 1
computeCoherenceIndexAbsentAsOne(metrics, weights, invertedMetrics) ==
  LET keys == Weighted(metrics, weights) \cup (DOMAIN metrics \ DOMAIN weights)
      w == [k \in keys |-> IF k \in DOMAIN weights THEN weights[k] ELSE One]
      contrib == [k \in keys |->
                    RMul(IF k \in invertedMetrics THEN RSub(One, metrics[k]) ELSE metrics[k],
                         w[k])]
      weightedSum == SumOver(keys, contrib)
      totalWeight == SumOver(keys, w)
  IN  IF totalWeight = Zero THEN One ELSE clamp01(RDiv(weightedSum, totalWeight))

\* Seeded fault for C21: the weighted sum is divided by the number of
\* contributing metrics, not by their total weight
computeCoherenceIndexDividedByCount(metrics, weights, invertedMetrics) ==
  LET keys == Weighted(metrics, weights)
      contrib == [k \in keys |->
                    RMul(IF k \in invertedMetrics THEN RSub(One, metrics[k]) ELSE metrics[k],
                         weights[k])]
      weightedSum == SumOver(keys, contrib)
  IN  IF keys = {} THEN One ELSE clamp01(RDiv(weightedSum, Rat(Cardinality(keys), 1)))

\* Seeded fault for C22: the inverted set is ignored, every value counts as it is
computeCoherenceIndexPolarityIgnored(metrics, weights, invertedMetrics) ==
  LET keys == Weighted(metrics, weights)
      contrib == [k \in keys |-> RMul(metrics[k], weights[k])]
      weightedSum == SumOver(keys, contrib)
      totalWeight == SumOver(keys, [k \in keys |-> weights[k]])
  IN  IF totalWeight = Zero THEN One ELSE clamp01(RDiv(weightedSum, totalWeight))

\* Seeded fault for C23: an inverted metric is left out of the aggregate
computeCoherenceIndexInvertedSkipped(metrics, weights, invertedMetrics) ==
  LET keys == Weighted(metrics, weights) \ invertedMetrics
      contrib == [k \in keys |-> RMul(metrics[k], weights[k])]
      weightedSum == SumOver(keys, contrib)
      totalWeight == SumOver(keys, [k \in keys |-> weights[k]])
  IN  IF totalWeight = Zero THEN One ELSE clamp01(RDiv(weightedSum, totalWeight))

\* Seeded fault for C24: the flipped value of an inverted metric is added
\* without its weight
computeCoherenceIndexInvertedUnweighted(metrics, weights, invertedMetrics) ==
  LET keys == Weighted(metrics, weights)
      contrib == [k \in keys |->
                    IF k \in invertedMetrics THEN RSub(One, metrics[k])
                    ELSE RMul(metrics[k], weights[k])]
      weightedSum == SumOver(keys, contrib)
      totalWeight == SumOver(keys, [k \in keys |-> weights[k]])
  IN  IF totalWeight = Zero THEN One ELSE clamp01(RDiv(weightedSum, totalWeight))

computeCoherenceIndex(metrics, weights, invertedMetrics) ==
  LET keys == Weighted(metrics, weights)
      contrib == [k \in keys |->
                    RMul(IF k \in invertedMetrics THEN RSub(One, metrics[k]) ELSE metrics[k],
                         weights[k])]
      weightedSum == SumOver(keys, contrib)
      totalWeight == SumOver(keys, [k \in keys |-> weights[k]])
  IN  IF totalWeight = Zero THEN One ELSE clamp01(RDiv(weightedSum, totalWeight))

\* Seeded fault for C25: the thresholds are exclusive lower bounds
classifyBandExclusive(coherenceIndex, thresholds) ==
  IF RLt(thresholds.green, coherenceIndex) THEN "green"
  ELSE IF RLt(thresholds.yellow, coherenceIndex) THEN "yellow"
  ELSE IF RLt(thresholds.orange, coherenceIndex) THEN "orange"
  ELSE "red"

\* Seeded fault for C26: the results of the yellow and the orange test are swapped
classifyBandSwapped(coherenceIndex, thresholds) ==
  IF RLe(thresholds.green, coherenceIndex) THEN "green"
  ELSE IF RLe(thresholds.yellow, coherenceIndex) THEN "orange"
  ELSE IF RLe(thresholds.orange, coherenceIndex) THEN "yellow"
  ELSE "red"

classifyBand(coherenceIndex, thresholds) ==
  IF RLe(thresholds.green, coherenceIndex) THEN "green"
  ELSE IF RLe(thresholds.yellow, coherenceIndex) THEN "yellow"
  ELSE IF RLe(thresholds.orange, coherenceIndex) THEN "orange"
  ELSE "red"

----------------------------------------------------------------------------
\* types.ts: defaults

DEFAULT_WEIGHTS ==
  [goalDrift |-> Rat(1, 4), memoryRetention |-> Rat(1, 4),
   contradictionPressure |-> Rat(1, 4), semanticDiffusion |-> Rat(1, 4)]

DEFAULT_THRESHOLDS == [green |-> Rat(4, 5), yellow |-> Rat(3, 5), orange |-> Rat(2, 5)]

\* a call of computeCoherenceIndex as consumers write it: the second and the
\* third argument are optional, <<>> when omitted and <<value>> when given
computeCoherenceIndexCall(metrics, weightsArg, invertedArg) ==
  computeCoherenceIndex(metrics,
                        IF weightsArg = <<>> THEN DEFAULT_WEIGHTS ELSE weightsArg[1],
                        IF invertedArg = <<>> THEN DEFAULT_INVERTED ELSE invertedArg[1])

\* a call of classifyBand as consumers write it: the second argument is
\* optional, <<>> when omitted and <<thresholds>> when given
classifyBandCall(coherenceIndex, thresholdsArg) ==
  classifyBand(coherenceIndex,
               IF thresholdsArg = <<>> THEN DEFAULT_THRESHOLDS ELSE thresholdsArg[1])

----------------------------------------------------------------------------
\* Metric descriptors.  `inverted` is the optional flag: "true", "false" or
\* Undefined when the descriptor does not carry it.  `impl` names the compute
\* function; "custom" is a consumer-supplied compute, which returns one of
\* the values in `returns` or raises.

goalDriftMetric ==
  [name |-> "goalDrift", inverted |-> Undefined, impl |-> "goalDrift", returns |-> {}]

memoryRetentionMetric ==
  [name |-> "memoryRetention", inverted |-> Undefined, impl |-> "memoryRetention", returns |-> {}]

contradictionPressureMetric ==
  [name |-> "contradictionPressure", inverted |-> "true", impl |-> "contradictionPressure", returns |-> {}]

semanticDiffusionMetric ==
  [name |-> "semanticDiffusion", inverted |-> Undefined, impl |-> "semanticDiffusion", returns |-> {}]

DEFAULT_METRICS ==
  <<goalDriftMetric, memoryRetentionMetric, contradictionPressureMetric, semanticDiffusionMetric>>

\* a consumer-defined vector metric (MetricFn) or scalar metric (ScalarMetricFn)
MetricFn(name, inverted, returns) ==
  [name |-> name, inverted |-> inverted, impl |-> "custom", returns |-> returns]
ScalarMetricFn(name, inverted, returns) ==
  [name |-> name, inverted |-> inverted, returns |-> returns]

\* metric.compute(input) of a vector metric; `custom` is what a consumer's
\* compute returns
MetricCompute(metric, input, custom) ==
  CASE metric.impl = "goalDrift" ->
         computeGoalDrift(input.goalEmbeddings, input.contextEmbeddings)
    [] metric.impl = "memoryRetention" ->
         computeMemoryRetention(input.goalEmbeddings, input.goalRelevantMemoryEmbeddings)
    [] metric.impl = "contradictionPressure" ->
         computeContradictionPressure(input.contextEmbeddings)
    [] metric.impl = "semanticDiffusion" ->
         computeSemanticDiffusion(input.contextEmbeddings)
    [] OTHER -> custom

----------------------------------------------------------------------------
\* Collaborators supplied in the options: the state provider and the embedder

Accessors == {"getGoals", "getRecentContext", "getGoalRelevantMemories", "getAllMemories"}

\* the accessor calls of Promise.all([...]) in the order measure() issues them
AccessorOrder == <<"getGoals", "getRecentContext", "getGoalRelevantMemories", "getAllMemories">>

\* state providers: what each accessor resolves to when it does not raise,
\* and `flaky`, the accessors that may raise
EmptyState ==
  [getGoals |-> <<>>, getRecentContext |-> <<>>,
   getGoalRelevantMemories |-> <<>>, getAllMemories |-> <<>>, flaky |-> Accessors]

SharedState ==
  [getGoals |-> <<"a">>, getRecentContext |-> <<"a">>,
   getGoalRelevantMemories |-> <<"a">>, getAllMemories |-> <<"a">>, flaky |-> Accessors]

MixedState ==
  [getGoals |-> <<"a", "b">>, getRecentContext |-> <<"b", "a", "b">>,
   getGoalRelevantMemories |-> <<>>, getAllMemories |-> <<"b", "b">>, flaky |-> Accessors]

\* an empty agent state behind a provider of which one accessor may raise
FlakyContextState == [EmptyState EXCEPT !.flaky = {"getRecentContext"}]

\* embedders: "full" returns one vector per text, "short" returns one vector
\* too few (the provider has no vector for the last text)
TextVector == [a |-> <<1, 0>>, b |-> <<0, 1>>]

embedBatch(embedder, texts) ==
  LET all == [i \in 1..Len(texts) |-> TextVector[texts[i]]]
  IN  IF embedder = "short" THEN SubSeq(all, 1, Len(all) - 1) ELSE all

----------------------------------------------------------------------------
\* createPreExecSensor: the options a sensor is created with.  `awaits` is
\* not an option of the sensor: it tells how the consumer drives it, TRUE when
\* the consumer awaits each measure() before it issues the next one, and so
\* does `mutates`, TRUE when the consumer writes to the readings it receives.
\* metricsOmitted tells that the consumer left `metrics` out, so that the
\* default `metrics = DEFAULT_METRICS` binds the exported array (the sensors
\* of the model that run the default list all do so by omission).

Options(metrics, scalarMetrics, weights, state, embedder, onReading, historySize) ==
  [metrics |-> metrics, scalarMetrics |-> scalarMetrics, weights |-> weights,
   thresholds |-> DEFAULT_THRESHOLDS, state |-> state, embedder |-> embedder,
   onReading |-> onReading, historySize |-> historySize, awaits |-> FALSE,
   mutates |-> FALSE, metricsOmitted |-> (metrics = DEFAULT_METRICS)]

\* the metric lists and weights the sensors of the model are created with
DefaultSetup == [metrics |-> DEFAULT_METRICS, scalarMetrics |-> <<>>, weights |-> DEFAULT_WEIGHTS]

EmptySetup == [metrics |-> <<>>, scalarMetrics |-> <<>>, weights |-> DEFAULT_WEIGHTS]

CustomSetup ==
  [metrics |-> <<MetricFn("vibeCheck", Undefined, {Rat(2, 5)})>>,
   scalarMetrics |-> <<>>,
   weights |-> [vibeCheck |-> One]]

LegacySetup ==
  [metrics |-> <<MetricFn("goalDrift", Undefined, {Rat(4, 5)}),
                 MetricFn("vibeCheck", Undefined, {Rat(2, 5)})>>,
   scalarMetrics |-> <<ScalarMetricFn("semanticDiffusion", Undefined, {Rat(1, 5)})>>,
   weights |-> [goalDrift |-> Rat(1, 2), vibeCheck |-> Rat(1, 4), semanticDiffusion |-> Rat(1, 4)]]

DeclaredSetup ==
  [metrics |-> <<MetricFn("goalDrift", Undefined, {Rat(4, 5)}),
                 MetricFn("customInverted", "true", {Rat(1, 2)})>>,
   scalarMetrics |-> <<>>,
   weights |-> [goalDrift |-> Rat(1, 2), customInverted |-> Rat(1, 2)]]

FalseFlagSetup ==
  [metrics |-> <<MetricFn("goalDrift", Undefined, {Rat(4, 5)})>>,
   scalarMetrics |-> <<ScalarMetricFn("quality", "false", {Rat(1, 5)})>>,
   weights |-> [goalDrift |-> One, quality |-> One]]

CollidingSetup ==
  [metrics |-> <<MetricFn("goalDrift", "true", {Rat(3, 10)}),
                 MetricFn("goalDrift", Undefined, {Rat(4, 5)})>>,
   scalarMetrics |-> <<>>,
   weights |-> [goalDrift |-> One]]

OverlapSetup ==
  [metrics |-> <<>>,
   scalarMetrics |-> <<ScalarMetricFn("s1", "true", {Rat(4, 5)})>>,
   weights |-> [s1 |-> One]]

\* a scalar metric whose value changes from one call to the next
VaryingSetup ==
  [metrics |-> <<>>,
   scalarMetrics |-> <<ScalarMetricFn("s1", "true", {Zero, Rat(4, 5)})>>,
   weights |-> [s1 |-> One]]

\* the sensors of the test "adding a noop scalar metric (value 0, no weight)
\* does not change the index": a weighted metric, and a scalar metric named
\* noop that has no weight
MainNoopSetup ==
  [metrics |-> <<MetricFn("main", "true", {Rat(3, 10)})>>,
   scalarMetrics |-> <<ScalarMetricFn("noop", "false", {Zero})>>,
   weights |-> [main |-> One]]

\* the same addition to an active set in which no descriptor carries a flag
LegacyNoopSetup ==
  [metrics |-> <<MetricFn("goalDrift", Undefined, {Rat(4, 5)})>>,
   scalarMetrics |-> <<ScalarMetricFn("noop", "false", {Zero})>>,
   weights |-> [goalDrift |-> One]]

UnflaggedNoopSetup ==
  [metrics |-> <<MetricFn("goalDrift", Undefined, {Rat(4, 5)})>>,
   scalarMetrics |-> <<ScalarMetricFn("noop", Undefined, {Zero, One})>>,
   weights |-> [goalDrift |-> One]]

\* the sensors of the test "inverting a metric and flipping its value
\* preserves the index": one scalar metric sig of weight 1, direct or inverted
SigSetup(inverted) ==
  [metrics |-> <<>>,
   scalarMetrics |-> <<ScalarMetricFn("sig", inverted, {Rat(i, MaxSteps) : i \in 0..MaxSteps})>>,
   weights |-> [sig |-> One]]

\* a scalar metric that overrides a vector metric of the same name, and is
\* itself overridden by a later scalar metric of that name
ShadowingSetup ==
  [metrics |-> <<MetricFn("dup", "true", {Rat(1, 5)})>>,
   scalarMetrics |-> <<ScalarMetricFn("dup", Undefined, {Rat(2, 5)}),
                       ScalarMetricFn("dup", "false", {Rat(3, 5)})>>,
   weights |-> [dup |-> One]]

ScalarSetup ==
  [metrics |-> <<MetricFn("vibeCheck", Undefined, {Rat(2, 5)})>>,
   scalarMetrics |-> <<ScalarMetricFn("s1", "true", {Zero, Rat(4, 5)}),
                       ScalarMetricFn("s2", "false", {Rat(1, 5)})>>,
   weights |-> [vibeCheck |-> Rat(1, 2), s1 |-> Rat(1, 4), s2 |-> Rat(1, 4)]]

----------------------------------------------------------------------------
\* sensor.ts, measure(): the pure pieces of the pipeline

\* Seeded fault for C14: the texts are passed on without deduplication
UniqueOmitted(texts) == texts

\* [...new Set(allTexts)]: the distinct texts in first-occurrence order
RECURSIVE Unique(_)
Unique(texts) ==
  IF texts = <<>> THEN <<>>
  ELSE LET rest == Unique(SubSeq(texts, 1, Len(texts) - 1))
           last == texts[Len(texts)]
       IN  IF \E i \in 1..Len(rest) : rest[i] = last THEN rest ELSE Append(rest, last)

AllTexts(goals, context, goalRelevantMemories, allMemories) ==
  goals \o context \o goalRelevantMemories \o allMemories

\* embeddingMap after the loop over uniqueTexts: a text the provider returned
\* no vector for is set to undefined, which lookup reads like a missing key
EmbeddingMap(uniqueTexts, embeddings) ==
  [t \in {uniqueTexts[i] : i \in 1..Len(embeddings)} |->
     embeddings[CHOOSE i \in 1..Len(embeddings) : uniqueTexts[i] = t]]

\* Seeded fault for C31: a text without a vector is left out of the list
lookupSkipsMissing(embeddingMap, texts) ==
  SelectSeq([i \in 1..Len(texts) |->
               IF texts[i] \in DOMAIN embeddingMap THEN embeddingMap[texts[i]] ELSE <<>>],
            LAMBDA v : v # <<>>)

\* texts.map((t) => embeddingMap.get(t) ?? [])
lookup(embeddingMap, texts) ==
  [i \in 1..Len(texts) |->
     IF texts[i] \in DOMAIN embeddingMap THEN embeddingMap[texts[i]] ELSE <<>>]

MetricInput(embeddingMap, goals, context, goalRelevantMemories, allMemories) ==
  [goalEmbeddings |-> lookup(embeddingMap, goals),
   contextEmbeddings |-> lookup(embeddingMap, context),
   memoryEmbeddings |-> lookup(embeddingMap, allMemories),
   goalRelevantMemoryEmbeddings |-> lookup(embeddingMap, goalRelevantMemories)]

\* const snapshot = {} as MetricSnapshot
NewSnapshot == [name \in {} |-> Zero]

\* snapshot[name] = value
Put(snapshot, name, value) ==
  [k \in DOMAIN snapshot \cup {name} |-> IF k = name THEN value ELSE snapshot[k]]

\* what a collaborator call does: it returns a value or it raises
Returns(v) == [raise |-> FALSE, value |-> v]
Raises == [raise |-> TRUE, value |-> Zero]

\* the outcomes of the vector metrics' computes in one call: a built-in
\* compute does not raise and its value is computed from the input, a
\* consumer's compute returns one of its values or raises
VectorOutcomes(metrics) ==
  {o \in [1..Len(metrics) ->
            {Returns(v) : v \in UNION {metrics[i].returns : i \in 1..Len(metrics)}}
            \cup {Returns(Zero), Raises}] :
     \A i \in 1..Len(metrics) :
        IF metrics[i].impl = "custom"
        THEN o[i] = Raises \/ (~o[i].raise /\ o[i].value \in metrics[i].returns)
        ELSE o[i] = Returns(Zero)}

\* Seeded fault for C32: a name that is already in the snapshot is not
\* written again, so the first descriptor of a name wins
RECURSIVE VectorMetricsFirstWins(_, _, _, _)
VectorMetricsFirstWins(metrics, input, outs, n) ==
  IF n = 0 THEN [snapshot |-> NewSnapshot, thrown |-> 0, ran |-> 0]
  ELSE LET prev == VectorMetricsFirstWins(metrics, input, outs, n - 1)
       IN  IF prev.thrown # 0 THEN prev
           ELSE IF outs[n].raise THEN [prev EXCEPT !.thrown = n, !.ran = n]
           ELSE [snapshot |-> IF metrics[n].name \in DOMAIN prev.snapshot
                              THEN prev.snapshot
                              ELSE Put(prev.snapshot, metrics[n].name,
                                       MetricCompute(metrics[n], input, outs[n].value)),
                 thrown |-> 0, ran |-> n]

\* for (const metric of metrics) snapshot[metric.name] = metric.compute(input),
\* over the first n metrics: the snapshot, the index of the compute that
\* threw (0 when none did) and the number of computes invoked
RECURSIVE VectorMetrics(_, _, _, _)
VectorMetrics(metrics, input, outs, n) ==
  IF n = 0 THEN [snapshot |-> NewSnapshot, thrown |-> 0, ran |-> 0]
  ELSE LET prev == VectorMetrics(metrics, input, outs, n - 1)
       IN  IF prev.thrown # 0 THEN prev
           ELSE IF outs[n].raise THEN [prev EXCEPT !.thrown = n, !.ran = n]
           ELSE [snapshot |-> Put(prev.snapshot, metrics[n].name,
                                  MetricCompute(metrics[n], input, outs[n].value)),
                 thrown |-> 0, ran |-> n]

\* for (const {name, value} of scalarResults) snapshot[name] = value,
\* over the first n scalar metrics
RECURSIVE ScalarWrites(_, _, _, _)
ScalarWrites(snapshot, scalarMetrics, scalarResults, n) ==
  IF n = 0 THEN snapshot
  ELSE Put(ScalarWrites(snapshot, scalarMetrics, scalarResults, n - 1),
           scalarMetrics[n].name, scalarResults[n])

\* metrics.some(m => m.inverted !== undefined) || scalarMetrics.some(...)
\* Seeded fault for C7: the mode test reads the flag's truthiness, so a flag
\* of false does not count as a declaration
anyDeclaredTruthy(metrics, scalarMetrics) ==
  \/ \E i \in 1..Len(metrics) : metrics[i].inverted = "true"
  \/ \E i \in 1..Len(scalarMetrics) : scalarMetrics[i].inverted = "true"

anyDeclared(metrics, scalarMetrics) ==
  \/ \E i \in 1..Len(metrics) : metrics[i].inverted # Undefined
  \/ \E i \in 1..Len(scalarMetrics) : scalarMetrics[i].inverted # Undefined

\* Seeded fault for C38: the polarity of a name is taken from the descriptor
\* that wrote its value last, a scalar metric after any vector metric
DeclaredSetLastWriter(metrics, scalarMetrics) ==
  LET all == metrics \o scalarMetrics
  IN  {all[i].name :
         i \in {j \in 1..Len(all) :
                  /\ all[j].inverted = "true"
                  /\ \A l \in (j + 1)..Len(all) : all[l].name # all[j].name}}

\* the set built when anyDeclared: if (m.inverted) set.add(m.name)
DeclaredSet(metrics, scalarMetrics) ==
  {metrics[i].name : i \in {j \in 1..Len(metrics) : metrics[j].inverted = "true"}}
  \cup {scalarMetrics[i].name :
          i \in {j \in 1..Len(scalarMetrics) : scalarMetrics[j].inverted = "true"}}

\* Seeded fault for C8: no fallback to DEFAULT_INVERTED
InvertedSetDeclaredOnly(metrics, scalarMetrics) ==
  DeclaredSet(metrics, scalarMetrics)

InvertedSet(metrics, scalarMetrics) ==
  IF anyDeclared(metrics, scalarMetrics)
  THEN DeclaredSet(metrics, scalarMetrics)
  ELSE DEFAULT_INVERTED

\* Seeded fault for C34: the two fields of the tick are stored crosswise
CoherenceReadingCrossed(tick, snapshot, coherenceIndex, band) ==
  [ts |-> tick.seq, tickSeq |-> tick.ts, metrics |-> snapshot,
   coherenceIndex |-> coherenceIndex, band |-> band]

\* const reading: CoherenceReading = { ts: tick.ts, tickSeq: tick.seq, ... }
CoherenceReading(tick, snapshot, coherenceIndex, band) ==
  [ts |-> tick.ts, tickSeq |-> tick.seq, metrics |-> snapshot,
   coherenceIndex |-> coherenceIndex, band |-> band]

\* Seeded fault for C12: the buffer is shifted when it is full, not when it is over
RecordReadingEvictEarly(buffer, reading, historySize) ==
  LET pushed == Append(buffer, reading)
  IN  IF Len(pushed) >= historySize THEN Tail(pushed) ELSE pushed

\* Seeded fault for C3: readings.pop() instead of readings.shift()
RecordReadingEvictNewest(buffer, reading, historySize) ==
  LET pushed == Append(buffer, reading)
  IN  IF Len(pushed) > historySize THEN SubSeq(pushed, 1, Len(pushed) - 1) ELSE pushed

\* Seeded fault for C4: readings.unshift(reading) and readings.pop()
RecordReadingUnshift(buffer, reading, historySize) ==
  LET pushed == <<reading>> \o buffer
  IN  IF Len(pushed) > historySize THEN SubSeq(pushed, 1, Len(pushed) - 1) ELSE pushed

\* readings.push(reading); if (readings.length > historySize) readings.shift()
RecordReading(buffer, reading, historySize) ==
  LET pushed == Append(buffer, reading)
  IN  IF Len(pushed) > historySize THEN Tail(pushed) ELSE pushed

----------------------------------------------------------------------------
\* sensor.ts, history(n)

\* Seeded fault for C11: the copy is returned without .reverse()
ReverseOmitted(s) == s

\* [...].reverse()
Reverse(s) == [i \in 1..Len(s) |-> s[Len(s) + 1 - i]]

\* Array.prototype.slice(start): a negative start counts from the end
Slice(s, start) ==
  LET from == IF start < 0 THEN IF Len(s) + start > 0 THEN Len(s) + start ELSE 0
              ELSE IF start < Len(s) THEN start ELSE Len(s)
  IN  SubSeq(s, from + 1, Len(s))

\* n is <<>> when history() is called without an argument, <<count>> otherwise
history(buffer, n) ==
  IF n = <<>> THEN Reverse(buffer) ELSE Reverse(Slice(buffer, -n[1]))

----------------------------------------------------------------------------
\* State

VARIABLES
  options,    \* the options the sensor was created with
  clock,      \* number of ticks the clock delivers to the consumer
  readings,   \* the ring buffer of createPreExecSensor, oldest first
  calls,      \* the measure() calls: position and local variables of each
  issued,     \* number of measure() calls made so far
  recorded,   \* history variable: the calls in the order they pushed a reading
  settled,    \* history variable: the calls in the order their promise settled
  returned,   \* what the latest history() call returned, <<>> once the sensor moved on
  sharedMetrics, \* the contents of the exported array DEFAULT_METRICS
  applied,    \* the latest direct call of computeCoherenceIndex: arguments and result
  invoked     \* the latest direct call of another exported function: name, arguments, result

vars == <<options, clock, readings, calls, issued, recorded, settled, returned,
          sharedMetrics, applied, invoked>>

\* the list `metrics` of createPreExecSensor: the array the consumer passed,
\* or the exported array itself when the option was omitted
ActiveMetrics == IF options.metricsOmitted THEN sharedMetrics ELSE options.metrics

Calls == 1..MaxCalls

\* the tick of the c-th call: the clock numbers its ticks from 0
Tick(c) == [ts |-> 1000 * (c - 1), seq |-> c - 1]

NoInput ==
  [goalEmbeddings |-> <<>>, contextEmbeddings |-> <<>>,
   memoryEmbeddings |-> <<>>, goalRelevantMemoryEmbeddings |-> <<>>]

\* a call that has not been made.  pc is the suspension point the call is at:
\* "fetch" (await Promise.all of the accessors), "embed" (await embedBatch),
\* "scalar" (await Promise.all of the scalar computes), "notify" (await
\* onReading), or its outcome "done" / "rejected".  Two fields are history
\* variables: trace lists, in order, the collaborator invocations and pipeline
\* steps the call has performed, and raised is the collaborator that was the
\* first to raise during the call ("" while none has).  Two more record the
\* notification: notified lists the readings onReading was invoked with, and
\* notifyDone tells that the promise of onReading has settled.  mutated tells
\* that the consumer has written to the reading object of the call, and
\* scalarOrder lists the scalar metrics in the order their computes resolved.
IdleCall ==
  [pc |-> "idle", tick |-> Tick(1), pendingAccessors |-> {}, uniqueTexts |-> <<>>,
   embedded |-> FALSE, input |-> NoInput, snapshot |-> NewSnapshot,
   pendingScalars |-> {}, scalarResults |-> <<>>, invertedSet |-> {},
   reading |-> <<>>, error |-> "", trace |-> <<>>, raised |-> "",
   notified |-> <<>>, notifyDone |-> FALSE, mutated |-> FALSE, scalarOrder |-> <<>>]

Settled(k) == k.pc \in {"done", "rejected"}

\* Seeded fault for C1: the error is swallowed and the call carries on
RejectSwallowed(k, from) == k

\* the promise of measure() rejects with the error of `from`
Reject(k, from) == [k EXCEPT !.pc = "rejected", !.error = from]

\* collaborator `from` raises while call k has it pending
Raise(k, from) == [k EXCEPT !.raised = IF @ = "" THEN from ELSE @]

\* Seeded fault for C5: Promise.race, the first accessor to resolve resumes the call
FetchCompleteAny(k) == TRUE

\* Seeded fault for C39: the accessors' results are never collected, the call
\* is not resumed when the last accessor has resolved
FetchCompleteNever(k) == FALSE

\* await Promise.all([...]) of the accessors resumes the call once every
\* accessor has resolved
FetchComplete(k) == k.pendingAccessors = {}

\* await Promise.all(scalarMetrics.map(...)) resumes the call once every
\* scalar compute has resolved
ScalarsComplete(k) == k.pendingScalars = {}

----------------------------------------------------------------------------
\* measure(): the synchronous runs between two suspension points

\* Seeded fault for C28: onReading(reading) is called without await
AfterScalarsFireAndForget(k) ==
  LET snapshot == ScalarWrites(k.snapshot, options.scalarMetrics, k.scalarResults,
                               Len(options.scalarMetrics))
      invertedSet == InvertedSet(ActiveMetrics, options.scalarMetrics)
      coherenceIndex == computeCoherenceIndex(snapshot, options.weights, invertedSet)
      band == classifyBand(coherenceIndex, options.thresholds)
      reading == CoherenceReading(k.tick, snapshot, coherenceIndex, band)
  IN  [k EXCEPT !.snapshot = snapshot,
                !.invertedSet = invertedSet,
                !.reading = <<reading>>,
                !.pc = "done",
                !.notified = IF options.onReading THEN <<reading>> ELSE <<>>,
                !.trace = @ \o <<"invertedSet", "computeCoherenceIndex", "classifyBand", "push">>
                            \o (IF options.onReading THEN <<"onReading">> ELSE <<>>)]

\* Seeded fault for C37, its writes: the scalar results are written in the
\* order `order` lists the scalar metrics
RECURSIVE ScalarWritesInOrder(_, _, _, _)
ScalarWritesInOrder(snapshot, scalarMetrics, scalarResults, order) ==
  IF order = <<>> THEN snapshot
  ELSE Put(ScalarWritesInOrder(snapshot, scalarMetrics, scalarResults,
                               SubSeq(order, 1, Len(order) - 1)),
           scalarMetrics[order[Len(order)]].name, scalarResults[order[Len(order)]])

\* Seeded fault for C37: each scalar result is written when its compute
\* resolves, so the snapshot holds the results in completion order
AfterScalarsCompletionOrder(k) ==
  LET snapshot == ScalarWritesInOrder(k.snapshot, options.scalarMetrics, k.scalarResults,
                                      k.scalarOrder)
      invertedSet == InvertedSet(ActiveMetrics, options.scalarMetrics)
      coherenceIndex == computeCoherenceIndex(snapshot, options.weights, invertedSet)
      band == classifyBand(coherenceIndex, options.thresholds)
      reading == CoherenceReading(k.tick, snapshot, coherenceIndex, band)
  IN  [k EXCEPT !.snapshot = snapshot,
                !.invertedSet = invertedSet,
                !.reading = <<reading>>,
                !.pc = IF options.onReading THEN "notify" ELSE "done",
                !.notified = IF options.onReading THEN <<reading>> ELSE <<>>,
                !.trace = @ \o <<"invertedSet", "computeCoherenceIndex", "classifyBand", "push">>
                            \o (IF options.onReading THEN <<"onReading">> ELSE <<>>)]

\* Seeded fault for C33: the index is smoothed with the index of the newest
\* reading in the buffer
AfterScalarsSmoothed(k) ==
  LET snapshot == ScalarWrites(k.snapshot, options.scalarMetrics, k.scalarResults,
                               Len(options.scalarMetrics))
      invertedSet == InvertedSet(ActiveMetrics, options.scalarMetrics)
      computed == computeCoherenceIndex(snapshot, options.weights, invertedSet)
      coherenceIndex == IF readings = <<>> THEN computed
                        ELSE RDiv(RAdd(computed, readings[Len(readings)].coherenceIndex),
                                  Rat(2, 1))
      band == classifyBand(coherenceIndex, options.thresholds)
      reading == CoherenceReading(k.tick, snapshot, coherenceIndex, band)
  IN  [k EXCEPT !.snapshot = snapshot,
                !.invertedSet = invertedSet,
                !.reading = <<reading>>,
                !.pc = IF options.onReading THEN "notify" ELSE "done",
                !.notified = IF options.onReading THEN <<reading>> ELSE <<>>,
                !.trace = @ \o <<"invertedSet", "computeCoherenceIndex", "classifyBand", "push">>
                            \o (IF options.onReading THEN <<"onReading">> ELSE <<>>)]

\* lines 134-173, after the scalar results are in: write them, resolve the
\* polarity, aggregate, classify, assemble and store the reading, notify
AfterScalars(k) ==
  LET snapshot == ScalarWrites(k.snapshot, options.scalarMetrics, k.scalarResults,
                               Len(options.scalarMetrics))
      invertedSet == InvertedSet(ActiveMetrics, options.scalarMetrics)
      coherenceIndex == computeCoherenceIndex(snapshot, options.weights, invertedSet)
      band == classifyBand(coherenceIndex, options.thresholds)
      reading == CoherenceReading(k.tick, snapshot, coherenceIndex, band)
  IN  [k EXCEPT !.snapshot = snapshot,
                !.invertedSet = invertedSet,
                !.reading = <<reading>>,
                !.pc = IF options.onReading THEN "notify" ELSE "done",
                !.notified = IF options.onReading THEN <<reading>> ELSE <<>>,
                !.trace = @ \o <<"invertedSet", "computeCoherenceIndex", "classifyBand", "push">>
                            \o (IF options.onReading THEN <<"onReading">> ELSE <<>>)]

\* Seeded fault for C27: the scalar computes are awaited one after the other,
\* so only the first one is started when the call suspends
AfterEmbedSequentialScalars(k, embeddings, outs) ==
  LET st == options.state
      embeddingMap == EmbeddingMap(k.uniqueTexts, embeddings)
      input == MetricInput(embeddingMap, st.getGoals, st.getRecentContext,
                           st.getGoalRelevantMemories, st.getAllMemories)
      vm == VectorMetrics(ActiveMetrics, input, outs, Len(ActiveMetrics))
      k1 == [k EXCEPT !.input = input,
                      !.snapshot = vm.snapshot,
                      !.trace = @ \o [i \in 1..vm.ran |-> "compute"]]
  IN  IF vm.thrown # 0 THEN Reject(Raise(k1, "metric"), "metric")
      ELSE IF Len(options.scalarMetrics) > 0
      THEN [k1 EXCEPT !.pc = "scalar",
                      !.pendingScalars = {1},
                      !.trace = Append(@, "scalar")]
      ELSE AfterScalars(k1)

\* lines 95-132, with the provider's answer (<<>> when it was not asked):
\* build the lookup and the input, run the vector metrics, start the scalars
AfterEmbed(k, embeddings, outs) ==
  LET st == options.state
      embeddingMap == EmbeddingMap(k.uniqueTexts, embeddings)
      input == MetricInput(embeddingMap, st.getGoals, st.getRecentContext,
                           st.getGoalRelevantMemories, st.getAllMemories)
      vm == VectorMetrics(ActiveMetrics, input, outs, Len(ActiveMetrics))
      n == Len(options.scalarMetrics)
      k1 == [k EXCEPT !.input = input,
                      !.snapshot = vm.snapshot,
                      !.trace = @ \o [i \in 1..vm.ran |-> "compute"]]
  IN  IF vm.thrown # 0 THEN Reject(Raise(k1, "metric"), "metric")
      ELSE IF n > 0
      THEN [k1 EXCEPT !.pc = "scalar",
                      !.pendingScalars = 1..n,
                      !.trace = @ \o [i \in 1..n |-> "scalar"]]
      ELSE AfterScalars(k1)

\* Seeded fault for C13: embedBatch is called without the length test
AfterFetchAlwaysEmbeds(k, outs) ==
  LET st == options.state
      uniqueTexts == Unique(AllTexts(st.getGoals, st.getRecentContext,
                                     st.getGoalRelevantMemories, st.getAllMemories))
  IN  [k EXCEPT !.uniqueTexts = uniqueTexts, !.pc = "embed",
                !.trace = Append(@, "embedBatch")]

\* lines 90-98, once Promise.all of the four accessors has resolved
AfterFetch(k, outs) ==
  LET st == options.state
      uniqueTexts == Unique(AllTexts(st.getGoals, st.getRecentContext,
                                     st.getGoalRelevantMemories, st.getAllMemories))
      k1 == [k EXCEPT !.uniqueTexts = uniqueTexts]
  IN  IF Len(uniqueTexts) > 0
      THEN [k1 EXCEPT !.pc = "embed", !.trace = Append(@, "embedBatch")]
      ELSE AfterEmbed(k1, <<>>, outs)

\* Seeded fault for C36: the push is made on a copy of the buffer taken before
\* a call that is now awaiting its notification pushed, and the copy is
\* stored back, so the reading of that call is lost
CommitLostUpdate(c, k) ==
  LET pushes == calls[c].reading = <<>> /\ k.reading # <<>>
      stale == \E d \in Calls \ {c} : calls[d].pc = "notify"
  IN  /\ calls' = [calls EXCEPT ![c] = k]
      /\ readings' = IF pushes
                     THEN RecordReading(IF stale /\ readings # <<>>
                                        THEN SubSeq(readings, 1, Len(readings) - 1)
                                        ELSE readings,
                                        k.reading[1], options.historySize)
                     ELSE readings
      /\ recorded' = IF pushes THEN Append(recorded, c) ELSE recorded
      /\ settled' = IF Settled(k) /\ ~Settled(calls[c]) THEN Append(settled, c) ELSE settled
      /\ returned' = <<>>
      /\ UNCHANGED <<options, clock, sharedMetrics, applied, invoked>>

\* call c moves to k: a reading the step assembled is pushed to the buffer
\* in the same step, and a promise the step settled is noted.  No step of a
\* call runs inside the consumer's turn that called history()
Commit(c, k) ==
  LET pushes == calls[c].reading = <<>> /\ k.reading # <<>>
  IN  /\ returned = <<>>
      /\ calls' = [calls EXCEPT ![c] = k]
      /\ readings' = IF pushes
                     THEN RecordReading(readings, k.reading[1], options.historySize)
                     ELSE readings
      /\ recorded' = IF pushes THEN Append(recorded, c) ELSE recorded
      /\ settled' = IF Settled(k) /\ ~Settled(calls[c]) THEN Append(settled, c) ELSE settled
      /\ returned' = <<>>
      /\ UNCHANGED <<options, clock, sharedMetrics, applied, invoked>>

----------------------------------------------------------------------------
\* Actions

\* the clock ticks and the consumer calls sensor.measure(tick): lines 83-88
\* issue the four accessor calls
Measure(c) ==
  /\ c = issued + 1
  /\ c <= clock
  /\ calls[c].pc = "idle"
  /\ options.awaits => \A d \in 1..(c - 1) : Settled(calls[d])
  /\ issued' = c
  /\ Commit(c, [IdleCall EXCEPT !.pc = "fetch",
                                !.tick = Tick(c),
                                !.pendingAccessors = Accessors,
                                !.trace = AccessorOrder])

\* a state accessor resolves; the last one resumes the call
AccessorReturns(c, a) ==
  /\ a \in calls[c].pendingAccessors
  /\ LET k == [calls[c] EXCEPT !.pendingAccessors = @ \ {a}]
     IN  IF k.pc = "fetch" /\ FetchComplete(k)
         THEN \E outs \in VectorOutcomes(ActiveMetrics) : Commit(c, AfterFetch(k, outs))
         ELSE Commit(c, k)
  /\ UNCHANGED issued

\* a state accessor rejects: Promise.all rejects with the first rejection
AccessorRaises(c, a) ==
  /\ a \in calls[c].pendingAccessors
  /\ a \in options.state.flaky
  /\ LET k == Raise([calls[c] EXCEPT !.pendingAccessors = @ \ {a}], a)
     IN  Commit(c, IF k.pc = "fetch" THEN Reject(k, a) ELSE k)
  /\ UNCHANGED issued

EmbedReturns(c) ==
  /\ calls[c].pc = "embed"
  /\ \E outs \in VectorOutcomes(ActiveMetrics) :
       Commit(c, AfterEmbed([calls[c] EXCEPT !.embedded = TRUE],
                            embedBatch(options.embedder, calls[c].uniqueTexts), outs))
  /\ UNCHANGED issued

\* Seeded fault for C30: the provider's failure is caught and the call goes on
\* with no embeddings
EmbedRaisesContinues(c) ==
  /\ calls[c].pc = "embed"
  /\ \E outs \in VectorOutcomes(ActiveMetrics) :
       Commit(c, AfterEmbed(Raise(calls[c], "embedBatch"), <<>>, outs))
  /\ UNCHANGED issued

\* embedBatch rejects
EmbedRaises(c) ==
  /\ calls[c].pc = "embed"
  /\ Commit(c, Reject(Raise(calls[c], "embedBatch"), "embedBatch"))
  /\ UNCHANGED issued

\* a scalar metric's compute resolves with v; the last one resumes the call
ScalarReturns(c, i, v) ==
  /\ i \in calls[c].pendingScalars
  /\ LET k == [calls[c] EXCEPT !.pendingScalars = @ \ {i}]
         k1 == [k EXCEPT !.scalarResults = Put(@, i, v), !.scalarOrder = Append(@, i)]
     IN  IF k.pc # "scalar" THEN Commit(c, k)
         ELSE IF ScalarsComplete(k) THEN Commit(c, AfterScalars(k1))
         ELSE Commit(c, k1)
  /\ UNCHANGED issued

\* Seeded fault for C40: Promise.allSettled, the rejection is delivered once
\* every scalar compute has settled
ScalarRaisesWaits(c, i) ==
  /\ i \in calls[c].pendingScalars
  /\ LET k == Raise([calls[c] EXCEPT !.pendingScalars = @ \ {i}], "scalarMetric")
     IN  Commit(c, IF k.pc = "scalar" /\ ScalarsComplete(k)
                   THEN Reject(k, "scalarMetric") ELSE k)
  /\ UNCHANGED issued

\* a scalar metric's compute raises: Promise.all rejects with the first rejection
ScalarRaises(c, i) ==
  /\ i \in calls[c].pendingScalars
  /\ LET k == Raise([calls[c] EXCEPT !.pendingScalars = @ \ {i}], "scalarMetric")
     IN  Commit(c, IF k.pc = "scalar" THEN Reject(k, "scalarMetric") ELSE k)
  /\ UNCHANGED issued

OnReadingReturns(c) ==
  /\ calls[c].pc = "notify"
  /\ Commit(c, [calls[c] EXCEPT !.pc = "done", !.notifyDone = TRUE])
  /\ UNCHANGED issued

\* Seeded fault for C2: the failed notification takes the reading back out
OnReadingRaisesRollback(c) ==
  /\ calls[c].pc = "notify"
  /\ calls' = [calls EXCEPT ![c] = Reject(Raise(calls[c], "onReading"), "onReading")]
  /\ readings' = SelectSeq(readings, LAMBDA r : r # calls[c].reading[1])
  /\ settled' = Append(settled, c)
  /\ returned' = <<>>
  /\ UNCHANGED <<options, clock, issued, recorded, sharedMetrics, applied, invoked>>

\* onReading raises, or the promise it returned rejects
OnReadingRaises(c) ==
  /\ calls[c].pc = "notify"
  /\ Commit(c, Reject(Raise([calls[c] EXCEPT !.notifyDone = TRUE], "onReading"), "onReading"))
  /\ UNCHANGED issued

\* the counts history(n) is called with: none, or 0..MaxCount
Counts == {<<>>} \cup {<<n>> : n \in 0..MaxCount}

\* the consumer calls sensor.history(n); history() changes nothing, so the
\* model follows one call of it at a time
History(n) ==
  /\ returned = <<>>
  /\ returned' = <<[n |-> n, result |-> history(readings, n)]>>
  /\ applied' = <<>>
  /\ invoked' = <<>>
  /\ UNCHANGED <<options, clock, readings, calls, issued, recorded, settled, sharedMetrics>>

\* the turn of the consumer that called history() ends; history() is
\* synchronous, so nothing else runs between the call and this point
HistoryDone ==
  /\ returned # <<>>
  /\ returned' = <<>>
  /\ UNCHANGED <<options, clock, readings, calls, issued, recorded, settled, sharedMetrics,
                 applied, invoked>>

\* what a consumer may leave the exported array as: an entry removed
\* (DEFAULT_METRICS.pop()), an entry replaced, an entry added
MutatedMetrics ==
  {SubSeq(DEFAULT_METRICS, 1, 3),
   [DEFAULT_METRICS EXCEPT ![1] = MetricFn("goalDrift", Undefined, {Rat(4, 5)})],
   Append(DEFAULT_METRICS, MetricFn("vibeCheck", Undefined, {Rat(2, 5)}))}

\* a consumer mutates the exported array DEFAULT_METRICS after the sensor was
\* created and before it is asked to measure
MutateDefaultMetrics(list) ==
  /\ returned = <<>>
  /\ options.metricsOmitted
  /\ sharedMetrics = DEFAULT_METRICS
  /\ issued = 0
  /\ clock > 0
  /\ sharedMetrics' = list
  /\ returned' = <<>>
  /\ UNCHANGED <<options, clock, readings, calls, issued, recorded, settled, applied, invoked>>

\* reading.band = ...: what a consumer's assignment to a field of a reading
\* object leaves in the object
Overwritten(reading) ==
  [reading EXCEPT !.band = IF @ = "red" THEN "green" ELSE "red"]

\* the consumer writes to the reading object it received from call c, as the
\* argument of onReading or as the result of measure().  reading is the one
\* object that line 154 creates, line 163 pushes, line 170 passes to onReading
\* and line 173 returns, so the write shows wherever the object is referenced
ConsumerMutates(c) ==
  /\ returned = <<>>
  /\ options.mutates
  /\ calls[c].reading # <<>>
  /\ calls[c].notified # <<>> \/ calls[c].pc = "done"
  /\ ~calls[c].mutated
  /\ calls' = [calls EXCEPT ![c] =
                 [@ EXCEPT !.reading = <<Overwritten(@[1])>>,
                           !.notified = IF @ = <<>> THEN @ ELSE <<Overwritten(@[1])>>,
                           !.mutated = TRUE]]
  /\ readings' = [i \in DOMAIN readings |->
                    IF readings[i].tickSeq = calls[c].tick.seq
                    THEN Overwritten(readings[i]) ELSE readings[i]]
  /\ returned' = <<>>
  /\ UNCHANGED <<options, clock, issued, recorded, settled, sharedMetrics, applied, invoked>>

----------------------------------------------------------------------------
\* Direct calls of the exported aggregation function, by a consumer that
\* runs no sensor (clock = 0)

IndexNames == {"goalDrift", "memoryRetention", "customMetric"}

IndexValues == {Rat(i, MaxSteps) : i \in 0..MaxSteps}

\* the snapshot of the test "treats all metrics as direct when no inverted
\* set is given"
TestSnapshot ==
  [goalDrift |-> Zero, memoryRetention |-> One,
   contradictionPressure |-> Zero, semanticDiffusion |-> Zero]

\* snapshots: any subset of the names, any values
IndexSnapshots == UNION {[S -> IndexValues] : S \in SUBSET IndexNames} \cup {TestSnapshot}

\* weights maps: any subset of the names; a weight is undefined, 0, 0.25 or 1
IndexWeights == UNION {[S -> {UndefinedNumber, Zero, Rat(1, 4), One}] : S \in SUBSET IndexNames}

\* the consumer calls computeCoherenceIndex; the function is pure, so the
\* model follows one call at a time
ComputeCoherenceIndex(metrics, weightsArg, invertedArg) ==
  /\ applied' = <<[metrics |-> metrics, weights |-> weightsArg, inverted |-> invertedArg,
                   result |-> computeCoherenceIndexCall(metrics, weightsArg, invertedArg)]>>
  /\ returned' = <<>>
  /\ UNCHANGED <<options, clock, readings, calls, issued, recorded, settled, sharedMetrics,
                 invoked>>

\* a direct call of function fn with the argument list args
Invocation(fn, args, result) == [fn |-> fn, args |-> args, result |-> result]

\* the indices classifyBand is called with
ThresholdValues == {Rat(2, 5), Rat(3, 5), Rat(4, 5), Rat(9, 10)}

BandValues == {Rat(i, BandSteps) : i \in -1..(BandSteps + 1)} \cup ThresholdValues

\* the thresholds classifyBand is called with: every triple of threshold
\* values, ordered or not, and the thresholds of the test "respects custom
\* thresholds"
TestThresholds == [green |-> Rat(9, 10), yellow |-> Rat(7, 10), orange |-> Rat(1, 2)]

BandThresholds ==
  [green : ThresholdValues, yellow : ThresholdValues, orange : ThresholdValues]
    \cup {TestThresholds}

\* the consumer calls classifyBand
ClassifyBand(coherenceIndex, thresholdsArg) ==
  /\ invoked' = <<Invocation("classifyBand", <<coherenceIndex, thresholdsArg>>,
                             classifyBandCall(coherenceIndex, thresholdsArg))>>
  /\ returned' = <<>>
  /\ UNCHANGED <<options, clock, readings, calls, issued, recorded, settled, sharedMetrics,
                 applied>>

\* the lists of embeddings the built-in metric functions are called with
EmbeddingLists == UNION {[1..n -> {<<1, 0>>, <<0, 1>>}] : n \in 0..MaxEmbeddings}

\* the direct calls of the built-in metric functions: name and argument list
MetricCalls ==
  {<<fn, <<a, b>>>> : fn \in {"computeGoalDrift", "computeMemoryRetention"},
                      a \in EmbeddingLists, b \in EmbeddingLists}
  \cup {<<fn, <<a>>>> : fn \in {"computeContradictionPressure", "computeSemanticDiffusion"},
                        a \in EmbeddingLists}

\* the consumer calls one of the four built-in metric functions
ComputeMetric(fn, args) ==
  /\ invoked' =
       <<Invocation(fn, args,
           CASE fn = "computeGoalDrift" -> computeGoalDrift(args[1], args[2])
             [] fn = "computeMemoryRetention" -> computeMemoryRetention(args[1], args[2])
             [] fn = "computeContradictionPressure" -> computeContradictionPressure(args[1])
             [] fn = "computeSemanticDiffusion" -> computeSemanticDiffusion(args[1]))>>
  /\ returned' = <<>>
  /\ UNCHANGED <<options, clock, readings, calls, issued, recorded, settled, sharedMetrics,
                 applied>>

\* one of the collaborator calls that measure() call c is awaiting settles:
\* it returns or it raises
Settles(c) ==
  \/ \E a \in Accessors : AccessorReturns(c, a)
  \/ \E a \in Accessors : AccessorRaises(c, a)
  \/ EmbedReturns(c)
  \/ EmbedRaises(c)
  \/ \E i \in 1..Len(options.scalarMetrics) :
       \E v \in options.scalarMetrics[i].returns : ScalarReturns(c, i, v)
  \/ \E i \in 1..Len(options.scalarMetrics) : ScalarRaises(c, i)
  \/ OnReadingReturns(c)
  \/ OnReadingRaises(c)

\* the steps of the measure() calls alone
MeasureNext ==
  \/ \E c \in Calls : Measure(c)
  \/ \E c \in Calls : Settles(c)

Next ==
  \/ \E c \in Calls : Measure(c)
  \/ \E c \in Calls, a \in Accessors : AccessorReturns(c, a)
  \/ \E c \in Calls, a \in Accessors : AccessorRaises(c, a)
  \/ \E c \in Calls : EmbedReturns(c)
  \/ \E c \in Calls : EmbedRaises(c)
  \/ \E c \in Calls, i \in 1..Len(options.scalarMetrics) :
       \E v \in options.scalarMetrics[i].returns : ScalarReturns(c, i, v)
  \/ \E c \in Calls, i \in 1..Len(options.scalarMetrics) : ScalarRaises(c, i)
  \/ \E c \in Calls : OnReadingReturns(c)
  \/ \E c \in Calls : OnReadingRaises(c)
  \/ \E n \in Counts : History(n)
  \/ HistoryDone
  \/ \E list \in MutatedMetrics : MutateDefaultMetrics(list)
  \/ \E c \in Calls : ConsumerMutates(c)
  \/ /\ clock = 0
     /\ returned = <<>>
     /\ applied = <<>>
     /\ invoked = <<>>
     /\ \E metrics \in IndexSnapshots, weightsArg \in {<<>>} \cup {<<w>> : w \in IndexWeights},
           invertedArg \in {<<>>} \cup {<<S>> : S \in SUBSET IndexNames} :
          ComputeCoherenceIndex(metrics, weightsArg, invertedArg)
  \/ /\ clock = 0
     /\ returned = <<>>
     /\ applied = <<>>
     /\ invoked = <<>>
     /\ \E coherenceIndex \in BandValues,
           thresholdsArg \in {<<>>} \cup {<<t>> : t \in BandThresholds} :
          ClassifyBand(coherenceIndex, thresholdsArg)
  \/ /\ clock = 0
     /\ returned = <<>>
     /\ applied = <<>>
     /\ invoked = <<>>
     /\ \E call \in MetricCalls : ComputeMetric(call[1], call[2])

\* Sensors driven by one tick: every setup and state provider
SingleFixtures ==
  {Options(s.metrics, s.scalarMetrics, s.weights, st, e, TRUE, 1) :
     s \in {DefaultSetup, EmptySetup, CustomSetup, LegacySetup, DeclaredSetup,
            FalseFlagSetup, CollidingSetup, ScalarSetup},
     st \in {EmptyState, SharedState, MixedState}, e \in {"full", "short"}}
  \cup {Options(s.metrics, s.scalarMetrics, s.weights, SharedState, "full", TRUE, 1) :
          s \in {MainNoopSetup, LegacyNoopSetup, UnflaggedNoopSetup,
                 SigSetup("false"), SigSetup("true"), ShadowingSetup}}
  \cup {[Options(CustomSetup.metrics, CustomSetup.scalarMetrics, CustomSetup.weights,
                 SharedState, "full", TRUE, 1) EXCEPT !.mutates = TRUE]}

\* Sensors driven by MaxCalls ticks, whose measure() calls may overlap
OverlapFixtures ==
  {Options(OverlapSetup.metrics, OverlapSetup.scalarMetrics, OverlapSetup.weights,
           FlakyContextState, "full", TRUE, h) : h \in 0..MaxHistory}
  \cup {Options(OverlapSetup.metrics, OverlapSetup.scalarMetrics, OverlapSetup.weights,
                FlakyContextState, "full", FALSE, MaxHistory)}

\* Sensors driven by MaxCalls ticks by a consumer that awaits each measure()
SequentialFixtures ==
  {[Options(OverlapSetup.metrics, OverlapSetup.scalarMetrics, OverlapSetup.weights,
            FlakyContextState, "full", f, MaxCalls) EXCEPT !.awaits = TRUE] : f \in BOOLEAN}
  \cup {[Options(VaryingSetup.metrics, VaryingSetup.scalarMetrics, VaryingSetup.weights,
                 FlakyContextState, "full", FALSE, MaxCalls) EXCEPT !.awaits = TRUE]}

\* A consumer that creates a sensor, never ticks it, and calls the exported
\* functions directly
LibraryFixtures ==
  {Options(EmptySetup.metrics, EmptySetup.scalarMetrics, EmptySetup.weights,
           EmptyState, "full", FALSE, 0)}

Init ==
  /\ \/ options \in SingleFixtures /\ clock = 1
     \/ options \in OverlapFixtures /\ clock = MaxCalls
     \/ options \in SequentialFixtures /\ clock = MaxCalls
     \/ options \in LibraryFixtures /\ clock = 0
  /\ readings = <<>>
  /\ calls = [c \in Calls |-> IdleCall]
  /\ issued = 0
  /\ recorded = <<>>
  /\ settled = <<>>
  /\ returned = <<>>
  /\ sharedMetrics = DEFAULT_METRICS
  /\ applied = <<>>
  /\ invoked = <<>>

Spec == Init /\ [][Next]_vars

\* the number of collaborator calls that a call is awaiting: Settles(c) is
\* enabled exactly when Awaited(calls[c]) > 0
Awaited(k) ==
  Cardinality(k.pendingAccessors) + Cardinality(k.pendingScalars)
    + (IF k.pc = "embed" THEN 1 ELSE 0)
    + (IF k.pc = "notify" /\ ~k.notifyDone THEN 1 ELSE 0)

\* a is a proper subset of b
Shrunk(a, b) == a \subseteq b /\ a # b

\* a collaborator call that call c was awaiting has settled in this step: the
\* steps of MeasureNext that are Settles(c) steps
CollaboratorSettled(c) ==
  \/ Shrunk(calls'[c].pendingAccessors, calls[c].pendingAccessors)
  \/ Shrunk(calls'[c].pendingScalars, calls[c].pendingScalars)
  \/ ~calls[c].embedded /\ calls'[c].embedded
  \/ calls[c].raised = "" /\ calls'[c].raised = "embedBatch"
  \/ ~calls[c].notifyDone /\ calls'[c].notifyDone

\* every collaborator call that measure() call c is awaiting eventually
\* settles: weak fairness of Settles(c).  It is stated as WF for the
\* notification callback and, for all collaborators, in the written-out form
\* []<>~ENABLED <<A>>_vars \/ []<><<A>>_vars with the two characterisations above
SettlesFairly(c) ==
  /\ WF_vars(OnReadingReturns(c) \/ OnReadingRaises(c))
  /\ []<>(Awaited(calls[c]) = 0) \/ []<><<CollaboratorSettled(c)>>_vars

\* The measure() calls of the same sensors, with the hypothesis that every
\* collaborator call a measure() call is awaiting eventually settles; the
\* event loop then runs the continuation of the call, and measure() has no
\* other source of delay
LiveSpec == Init /\ [][MeasureNext]_vars /\ \A c \in Calls : SettlesFairly(c)

----------------------------------------------------------------------------
\* Properties

Range(s) == {s[i] : i \in DOMAIN s}

Position(s, x) == CHOOSE i \in DOMAIN s : s[i] = x

\* a and b both occur in s, a at the lower index
Before(s, a, b) == a \in Range(s) /\ b \in Range(s) /\ Position(s, a) < Position(s, b)

\* the collaborators measure() awaits or runs before it records the reading
PreRecordFailures == Accessors \cup {"embedBatch", "metric", "scalarMetric"}

\* the readings pushed so far, in the order they were pushed
RecordedReadings == [i \in DOMAIN recorded |-> calls[recorded[i]].reading[1]]

\* the calls whose readings the buffer holds, oldest first (tickSeq = c - 1)
BufferCalls == [i \in DOMAIN readings |-> readings[i].tickSeq + 1]

\* C1: for every measure(tick) call in which a state accessor, embedBatch, a
\* vector metric's compute or a scalar metric's compute raises, the call is
\* rejected with that error, the call leaves the history buffer as it was (no
\* reading of the call is pushed and no step of the call changes the buffer),
\* and onReading is not invoked for that call.
C1_FailureAborts ==
  /\ [](\A c \in Calls :
          calls[c].raised \in PreRecordFailures =>
            /\ calls[c].pc = "rejected"
            /\ calls[c].error = calls[c].raised
            /\ calls[c].reading = <<>>
            /\ c \notin Range(recorded)
            /\ c \notin Range(BufferCalls)
            /\ "onReading" \notin Range(calls[c].trace))
  /\ [][\A c \in Calls :
          (calls'[c] # calls[c] /\ calls'[c].raised \in PreRecordFailures)
            => readings' = readings]_vars

\* a scalar metric raised in one call while the buffer holds another call's reading
C1_Witness ==
  \E c \in Calls :
    /\ calls[c].raised = "scalarMetric"
    /\ calls[c].pc = "rejected"
    /\ readings # <<>>

\* C2 as stated: whenever onReading is invoked, history()[0] is already that
\* reading, and if onReading raises measure() rejects with that error while
\* the reading stays in history.
C2_Original ==
  [][\A c \in Calls :
       /\ (calls[c].pc # "notify" /\ calls'[c].pc = "notify") =>
            /\ history(readings', <<>>) # <<>>
            /\ history(readings', <<>>)[1] = calls'[c].reading[1]
       /\ (calls[c].pc = "notify" /\ calls'[c].pc = "rejected") =>
            /\ calls'[c].error = "onReading"
            /\ calls'[c].reading[1] \in Range(readings')]_vars

\* C2, amended: the reading is pushed before onReading is invoked; on a sensor
\* with historySize >= 1, history()[0] is that reading at the moment
\* onReading is invoked; and if onReading raises, measure() rejects with that
\* error and the rejection takes nothing out of the buffer (the reading was
\* pushed and stays until later readings evict it).
C2_PushBeforeNotify ==
  [][\A c \in Calls :
       /\ (calls[c].pc # "notify" /\ calls'[c].pc = "notify") =>
            /\ c \in Range(recorded')
            /\ options.historySize >= 1 =>
                 /\ history(readings', <<>>) # <<>>
                 /\ history(readings', <<>>)[1] = calls'[c].reading[1]
       /\ (calls[c].pc = "notify" /\ calls'[c].pc = "rejected") =>
            /\ calls'[c].error = "onReading"
            /\ c \in Range(recorded)
            /\ readings' = readings]_vars

\* onReading raised and the call's reading is the newest of the buffer
C2_Witness ==
  \E c \in Calls :
    /\ calls[c].pc = "rejected"
    /\ calls[c].error = "onReading"
    /\ options.historySize >= 1
    /\ readings # <<>>
    /\ readings[Len(readings)] = calls[c].reading[1]

\* C3: for a sensor with historySize = C (C >= 0), in every reachable state
\* (between calls, inside onReading, and while measure() calls overlap) the
\* buffer holds at most C readings, and it holds exactly the last min(k, C) of
\* the k readings recorded so far, in recording order.
C3_RingBuffer ==
  LET C == options.historySize
      k == Len(recorded)
      m == IF k < C THEN k ELSE C
  IN  /\ Len(readings) <= C
      /\ Len(readings) = m
      /\ \A i \in 1..m : readings[i] = RecordedReadings[k - m + i]

\* a reading was evicted while a call is inside onReading
C3_Witness ==
  /\ options.historySize >= 1
  /\ Len(recorded) > options.historySize
  /\ \E c \in Calls : calls[c].pc = "notify"

\* C4 as stated: of two calls that both completed, the one whose promise
\* settled first has the older position in history.
C4_Original ==
  \A c, d \in Calls :
    (/\ calls[c].pc = "done" /\ calls[d].pc = "done"
     /\ c \in Range(BufferCalls) /\ d \in Range(BufferCalls)
     /\ Before(settled, c, d))
      => Before(BufferCalls, c, d)

\* C4, amended: the relative position of two readings in history is
\* determined by which call reached its record step first, not by the order
\* in which the calls were issued; when no onReading callback is configured
\* that is also the order in which the calls complete.
C4_RecordOrder ==
  \A c, d \in Range(BufferCalls) :
    /\ (c # d /\ Before(recorded, c, d)) => Before(BufferCalls, c, d)
    /\ (/\ ~options.onReading
        /\ calls[c].pc = "done" /\ calls[d].pc = "done"
        /\ Before(settled, c, d)) => Before(BufferCalls, c, d)

\* two overlapping calls, the one issued later holds the older position
C4_Witness ==
  /\ ~options.onReading
  /\ BufferCalls = <<2, 1>>
  /\ settled = <<2, 1>>

StageOf(e) ==
  IF e \in Accessors THEN 1
  ELSE CASE e = "embedBatch" -> 2
         [] e = "compute" -> 3
         [] e = "scalar" -> 4
         [] e = "invertedSet" -> 5
         [] e = "computeCoherenceIndex" -> 6
         [] e = "classifyBand" -> 7
         [] e = "push" -> 8
         [] e = "onReading" -> 9

\* C5: within one measure() call the stages run in the order fetch, embed,
\* vector metrics, scalar metrics, polarity, aggregate, classify, record,
\* notify: embedBatch is not invoked before all four accessors have completed,
\* no vector compute runs before embedBatch has completed, no scalar compute
\* starts before every vector compute has returned, the reading is not
\* recorded before every scalar has resolved, and onReading is not invoked
\* before the reading is recorded.
C5_StageOrder ==
  \A c \in Calls :
    LET k == calls[c]
        t == k.trace
    IN  /\ \A i \in 1..(Len(t) - 1) : StageOf(t[i]) <= StageOf(t[i + 1])
        /\ (\E e \in Range(t) : StageOf(e) >= 2) => k.pendingAccessors = {}
        /\ ("compute" \in Range(t) /\ "embedBatch" \in Range(t)) => k.embedded
        /\ "scalar" \in Range(t) =>
             Cardinality({i \in DOMAIN t : t[i] = "compute"}) = Len(ActiveMetrics)
        /\ (k.reading # <<>>) = ("push" \in Range(t))
        /\ (c \in Range(recorded)) = ("push" \in Range(t))
        /\ "push" \in Range(t) =>
             /\ k.pendingScalars = {}
             /\ DOMAIN k.scalarResults = 1..Len(options.scalarMetrics)
        /\ "onReading" \in Range(t) => "push" \in Range(t)

\* a call went through every stage, embedding and scalar metrics included
C5_Witness ==
  \E c \in Calls :
    /\ calls[c].pc = "done"
    /\ {"embedBatch", "compute", "scalar", "push", "onReading"} \subseteq Range(calls[c].trace)

BuiltInNames == {"goalDrift", "memoryRetention", "contradictionPressure", "semanticDiffusion"}

\* the active descriptors, vector metrics first
Descriptors ==
  [i \in 1..Len(ActiveMetrics) |->
     [name |-> ActiveMetrics[i].name, inverted |-> ActiveMetrics[i].inverted]]
  \o [i \in 1..Len(options.scalarMetrics) |->
        [name |-> options.scalarMetrics[i].name,
         inverted |-> options.scalarMetrics[i].inverted]]

\* some active descriptor carries an explicit inverted flag, true or false
AnyFlag == \E i \in DOMAIN Descriptors : Descriptors[i].inverted \in {"true", "false"}

\* the names of the active descriptors whose flag is true
FlaggedTrue == {Descriptors[i].name : i \in {j \in DOMAIN Descriptors : Descriptors[j].inverted = "true"}}

\* C6 as stated: with the default configuration (the four built-in metrics,
\* weights of 0.25 each, default thresholds), when all four state accessors
\* return empty lists, measure() returns a reading whose four built-in metric
\* values are all 0, whose coherenceIndex is 0.75 and whose band is yellow.
C6_DefaultEmptyReading ==
  \A c \in Calls :
    (/\ options.metrics = DEFAULT_METRICS
     /\ sharedMetrics = DEFAULT_METRICS
     /\ options.scalarMetrics = <<>>
     /\ options.weights = DEFAULT_WEIGHTS
     /\ options.thresholds = DEFAULT_THRESHOLDS
     /\ \A a \in Accessors : options.state[a] = <<>>
     /\ calls[c].pc = "done")
      => LET r == calls[c].reading[1]
         IN  /\ DOMAIN r.metrics = BuiltInNames
             /\ \A name \in BuiltInNames : r.metrics[name] = Zero
             /\ r.coherenceIndex = Rat(3, 4)
             /\ r.band = "yellow"

\* C7 as stated: if any active descriptor carries an explicit inverted flag,
\* the set of names inverted in aggregation is exactly the names of active
\* descriptors whose flag is true, and every unflagged descriptor is
\* aggregated directly.
C7_Original ==
  \A c \in Calls :
    (AnyFlag /\ calls[c].reading # <<>>) =>
      /\ calls[c].invertedSet = FlaggedTrue
      /\ \A i \in DOMAIN Descriptors :
           Descriptors[i].inverted = Undefined
             => Descriptors[i].name \notin calls[c].invertedSet

\* C7, amended: if any active descriptor carries an explicit inverted flag,
\* true or false, the set of names inverted in aggregation is exactly the
\* names of active descriptors whose flag is true; every unflagged descriptor
\* whose name is not also the name of a descriptor flagged true is aggregated
\* directly, even when its name is goalDrift, contradictionPressure or
\* semanticDiffusion (an unflagged goalDrift of value 0.8 next to a flagged
\* customInverted of value 0.5, equal weights, gives 0.5*0.8 + 0.5*0.5 = 0.65).
C7_DeclaredMode ==
  \A c \in Calls :
    (AnyFlag /\ calls[c].reading # <<>>) =>
      LET r == calls[c].reading[1]
      IN  /\ calls[c].invertedSet = FlaggedTrue
          /\ \A i \in DOMAIN Descriptors :
               (Descriptors[i].inverted = Undefined /\ Descriptors[i].name \notin FlaggedTrue)
                 => Descriptors[i].name \notin calls[c].invertedSet
          /\ r.coherenceIndex = computeCoherenceIndex(r.metrics, options.weights, FlaggedTrue)
          /\ options.metrics = DeclaredSetup.metrics =>
               /\ r.metrics["goalDrift"] = Rat(4, 5)
               /\ r.coherenceIndex = Rat(13, 20)
          /\ options.scalarMetrics = FalseFlagSetup.scalarMetrics =>
               /\ calls[c].invertedSet = {}
               /\ r.coherenceIndex = Rat(1, 2)

\* an unflagged goalDrift of 0.8 was aggregated next to a metric flagged true
C7_Witness ==
  \E c \in Calls :
    /\ calls[c].pc = "done"
    /\ options.metrics = DeclaredSetup.metrics
    /\ calls[c].invertedSet = {"customInverted"}
    /\ calls[c].reading[1].coherenceIndex = Rat(13, 20)

\* C8: if no active descriptor (vector or scalar) carries an explicit
\* inverted flag, the set of names inverted in aggregation is exactly
\* {goalDrift, contradictionPressure, semanticDiffusion}; memoryRetention and
\* every other name are aggregated directly (an unflagged goalDrift of 0.8 at
\* weight 0.5, vibeCheck of 0.4 at 0.25 and scalar semanticDiffusion of 0.2 at
\* 0.25 give 0.5*0.2 + 0.25*0.4 + 0.25*0.8 = 0.4).
C8_LegacyMode ==
  \A c \in Calls :
    (~AnyFlag /\ calls[c].reading # <<>>) =>
      LET r == calls[c].reading[1]
          legacy == {"goalDrift", "contradictionPressure", "semanticDiffusion"}
      IN  /\ calls[c].invertedSet = legacy
          /\ r.coherenceIndex = computeCoherenceIndex(r.metrics, options.weights, legacy)
          /\ options.metrics = LegacySetup.metrics => r.coherenceIndex = Rat(2, 5)
          /\ options.metrics = CustomSetup.metrics => r.coherenceIndex = Rat(2, 5)

\* unflagged goalDrift and semanticDiffusion were inverted, vibeCheck was not
C8_Witness ==
  \E c \in Calls :
    /\ calls[c].pc = "done"
    /\ options.metrics = LegacySetup.metrics
    /\ options.scalarMetrics = LegacySetup.scalarMetrics
    /\ calls[c].reading[1].coherenceIndex = Rat(2, 5)

\* C9 as stated: every returned reading's metrics contains goalDrift,
\* memoryRetention, contradictionPressure and semanticDiffusion, also when the
\* active vector and scalar metric lists are empty or contain only custom
\* metrics.
C9_SnapshotSeeded ==
  \A c \in Calls :
    calls[c].pc = "done" => BuiltInNames \subseteq DOMAIN calls[c].reading[1].metrics

\* C10 as stated: for every count >= 0 and every buffer of current size s,
\* history(count) returns exactly min(count, s) readings, namely the
\* min(count, s) most recently recorded ones, newest first.
C10_HistoryCount ==
  (returned # <<>> /\ returned[1].n # <<>>) =>
    LET count == returned[1].n[1]
        s == Len(readings)
        m == IF count < s THEN count ELSE s
        result == returned[1].result
    IN  /\ Len(result) = m
        /\ \A i \in 1..m : result[i] = readings[s + 1 - i]

\* C11: history() called without a count returns every buffered reading
\* newest-first by recording order: index 0 is the most recently recorded
\* reading and the last index is the oldest still buffered, whatever the
\* ticks' sequence numbers are.
C11_HistoryAll ==
  (returned # <<>> /\ returned[1].n = <<>>) =>
    LET result == returned[1].result
        s == Len(readings)
    IN  /\ Len(result) = s
        /\ \A i \in 1..s : result[i] = readings[s + 1 - i]
        /\ (s > 0) =>
             /\ result[1] = calls[recorded[Len(recorded)]].reading[1]
             /\ result[s] = calls[recorded[Len(recorded) - s + 1]].reading[1]

\* history() returned two readings of which the newest has the lower tickSeq
C11_Witness ==
  /\ returned # <<>>
  /\ returned[1].n = <<>>
  /\ Len(returned[1].result) = 2
  /\ returned[1].result[1].tickSeq < returned[1].result[2].tickSeq

\* every call made so far has settled
Quiescent == \A c \in 1..issued : Settled(calls[c])

\* C12 as stated: after any sequence of non-overlapping measure() calls, some
\* of which may fail, on a sensor whose historySize is at least the number of
\* calls, history().length equals the number of calls that completed
\* successfully.
C12_Original ==
  (options.awaits /\ Quiescent /\ options.historySize >= issued) =>
    Len(history(readings, <<>>)) = Cardinality({c \in Calls : calls[c].pc = "done"})

\* C12, amended: after any sequence of non-overlapping measure() calls, some
\* of which may fail, on a sensor whose historySize is at least the number of
\* calls, history().length equals the number of calls that reached the record
\* step: those that completed successfully plus those that were rejected
\* only because onReading raised.
C12_HistoryLength ==
  (options.awaits /\ Quiescent /\ options.historySize >= issued) =>
    /\ Len(history(readings, <<>>)) =
         Cardinality({c \in Calls :
                        \/ calls[c].pc = "done"
                        \/ calls[c].pc = "rejected" /\ calls[c].error = "onReading"})
    /\ ~options.onReading =>
         Len(history(readings, <<>>)) = Cardinality({c \in Calls : calls[c].pc = "done"})

\* two awaited calls: one failed before the record step, one succeeded
C12_Witness ==
  /\ options.awaits
  /\ issued = 2
  /\ Quiescent
  /\ \E c, d \in Calls :
       /\ calls[c].pc = "rejected" /\ calls[c].error \in PreRecordFailures
       /\ calls[d].pc = "done"
  /\ Len(readings) = 1

\* the four state lists, concatenated as goals, recent context, goal-relevant
\* memories, all memories
StateTexts ==
  options.state["getGoals"] \o options.state["getRecentContext"]
    \o options.state["getGoalRelevantMemories"] \o options.state["getAllMemories"]

\* the index at which x first occurs in s
FirstIndex(s, x) == CHOOSE i \in DOMAIN s : s[i] = x /\ \A j \in 1..(i - 1) : s[j] # x

\* the number of times e occurs in s
Count(s, e) == Cardinality({i \in DOMAIN s : s[i] = e})

\* the names of the first n descriptors of a list
NamesOf(list, n) == {list[i].name : i \in 1..n}

\* the index of the last descriptor of the list that has the name
LastIndex(list, name) ==
  CHOOSE i \in DOMAIN list : list[i].name = name /\ \A j \in (i + 1)..Len(list) : list[j].name # name

\* the accessors of call c have all resolved and none raised
Fetched(c) ==
  /\ calls[c].pc \notin {"idle", "fetch"}
  /\ calls[c].raised \notin Accessors

\* C13: if the four state accessors all return empty lists, measure()
\* completes without invoking the embedding provider at all, whatever metrics
\* are active: embedBatch is never invoked, and the call never waits on the
\* provider.
C13_NoEmbedOnEmptyState ==
  \A c \in Calls :
    (StateTexts = <<>>) =>
      /\ "embedBatch" \notin Range(calls[c].trace)
      /\ calls[c].pc # "embed"
      /\ ~calls[c].embedded
      /\ calls[c].uniqueTexts = <<>>
      /\ Fetched(c) => calls[c].raised # "embedBatch"

\* the default metrics ran to completion on an empty state
C13_Witness ==
  \E c \in Calls :
    /\ StateTexts = <<>>
    /\ options.metrics = DEFAULT_METRICS
    /\ calls[c].pc = "done"
    /\ Count(calls[c].trace, "compute") = 4

\* C14: if at least one state list is non-empty, measure() invokes embedBatch
\* exactly once, with a list that contains every distinct string of the four
\* state lists exactly once, in first-occurrence order over the lists taken
\* as goals, recent context, goal-relevant memories, all memories; a string
\* repeated in all four categories reaches the provider as a single element.
C14_EmbedBatchOnce ==
  \A c \in Calls :
    /\ Count(calls[c].trace, "embedBatch") <= 1
    /\ (Fetched(c) /\ StateTexts # <<>>) =>
         LET u == calls[c].uniqueTexts
         IN  /\ Count(calls[c].trace, "embedBatch") = 1
             /\ Range(u) = Range(StateTexts)
             /\ Len(u) = Cardinality(Range(StateTexts))
             /\ \A i, j \in DOMAIN u :
                  i < j => FirstIndex(StateTexts, u[i]) < FirstIndex(StateTexts, u[j])
             /\ (\A a \in Accessors : options.state[a] = <<"a">>) => u = <<"a">>

\* the provider was asked once for <<"a", "b">> and the call completed
C14_Witness ==
  \E c \in Calls :
    /\ calls[c].pc = "done"
    /\ calls[c].embedded
    /\ options.state["getRecentContext"] = <<"b", "a", "b">>
    /\ calls[c].uniqueTexts = <<"a", "b">>

\* C15 as stated: a mutation of the default metric list by one consumer, also
\* after a sensor was created, does not change which metrics a sensor created
\* with the default configuration runs: such a sensor runs the four built-in
\* metrics, and its readings hold their four values.
C15_DefaultsNotShared ==
  \A c \in Calls :
    (options.metricsOmitted /\ calls[c].reading # <<>>) =>
      /\ Count(calls[c].trace, "compute") = 4
      /\ DOMAIN calls[c].reading[1].metrics = BuiltInNames
      /\ calls[c].reading[1].metrics =
           [name \in BuiltInNames |->
              MetricCompute(CHOOSE m \in Range(DEFAULT_METRICS) : m.name = name,
                            calls[c].input, Zero)]

\* the weights map a direct call of computeCoherenceIndex aggregates with
AppliedWeights == IF applied[1].weights = <<>> THEN DEFAULT_WEIGHTS ELSE applied[1].weights[1]

\* the inverted set a direct call of computeCoherenceIndex was given, {} if none
AppliedInverted == IF applied[1].inverted = <<>> THEN {} ELSE applied[1].inverted[1]

\* the names that contribute to a direct call: weight defined and non-zero,
\* value present in the snapshot
Contributing ==
  {k \in DOMAIN AppliedWeights :
     /\ AppliedWeights[k] \notin {Zero, UndefinedNumber}
     /\ k \in DOMAIN applied[1].metrics}

\* C16 as stated: computeCoherenceIndex called without an inverted-set
\* argument treats every metric as direct (the inverted set defaults to the
\* empty set): for the snapshot goalDrift 0, memoryRetention 1,
\* contradictionPressure 0, semanticDiffusion 0 with default weights it
\* returns 0.25.
C16_NoInvertedSetIsDirect ==
  (applied # <<>> /\ applied[1].inverted = <<>>) =>
    /\ applied[1].result = computeCoherenceIndex(applied[1].metrics, AppliedWeights, {})
    /\ (applied[1].metrics = TestSnapshot /\ applied[1].weights = <<>>)
         => applied[1].result = Rat(1, 4)

\* C17: for every snapshot whose values lie in [0,1], every weights map with
\* non-negative weights and every inverted set, computeCoherenceIndex returns
\* a value in [0,1]; hence every reading returned by measure() or held in
\* history has coherenceIndex in [0,1].
C17_IndexInUnitInterval ==
  /\ applied # <<>> => (RLe(Zero, applied[1].result) /\ RLe(applied[1].result, One))
  /\ \A i \in DOMAIN readings :
       RLe(Zero, readings[i].coherenceIndex) /\ RLe(readings[i].coherenceIndex, One)
  /\ \A c \in Calls :
       calls[c].reading # <<>> =>
         /\ RLe(Zero, calls[c].reading[1].coherenceIndex)
         /\ RLe(calls[c].reading[1].coherenceIndex, One)

\* two weighted metrics, one of them inverted, aggregate strictly inside (0,1)
C17_Witness ==
  /\ applied # <<>>
  /\ Cardinality(Contributing) >= 2
  /\ Contributing \cap AppliedInverted # {}
  /\ RLt(Zero, applied[1].result)
  /\ RLt(applied[1].result, One)

\* the weights map without the names the snapshot has no entry for
PresentWeights == [k \in DOMAIN AppliedWeights \cap DOMAIN applied[1].metrics |-> AppliedWeights[k]]

\* C18: computeCoherenceIndex returns exactly 1 whenever no weighted metric
\* contributes: the weights map is empty, every weight is 0 or undefined, or
\* no name with a non-zero weight has an entry in the snapshot; a weighted
\* name missing from the snapshot is skipped and does not count toward the
\* total weight (memoryRetention 0.5 with weights memoryRetention 1 and
\* customMetric 1 gives 0.5, not 0.25).
C18_NoContributionIsOne ==
  applied # <<>> =>
    /\ Contributing = {} => applied[1].result = One
    /\ applied[1].result =
         computeCoherenceIndexCall(applied[1].metrics, <<PresentWeights>>, applied[1].inverted)
    /\ (/\ applied[1].metrics = [memoryRetention |-> Rat(1, 2)]
        /\ applied[1].weights = <<[memoryRetention |-> One, customMetric |-> One]>>
        /\ applied[1].inverted = <<{}>>)
         => applied[1].result = Rat(1, 2)

\* the only weighted name is missing from a snapshot that has other entries
C18_Witness ==
  /\ applied # <<>>
  /\ Contributing = {}
  /\ \E k \in DOMAIN AppliedWeights :
       AppliedWeights[k] = One /\ k \notin DOMAIN applied[1].metrics
  /\ DOMAIN applied[1].metrics # {}
  /\ applied[1].result = One

\* C19: changing the snapshot value of a metric whose weight is 0 or that is
\* absent from the weights map, with everything else fixed, leaves
\* computeCoherenceIndex unchanged.
C19_UnweightedValueIrrelevant ==
  applied # <<>> =>
    \A k \in DOMAIN applied[1].metrics, v \in IndexValues :
      (k \notin DOMAIN AppliedWeights \/ AppliedWeights[k] = Zero) =>
        computeCoherenceIndexCall(Put(applied[1].metrics, k, v),
                                  applied[1].weights, applied[1].inverted)
          = applied[1].result

\* a snapshot with a zero-weight entry, an entry without weight, and a
\* weighted entry that decides the index
C19_Witness ==
  /\ applied # <<>>
  /\ applied[1].weights # <<>>
  /\ \E k \in DOMAIN applied[1].metrics : k \notin DOMAIN AppliedWeights
  /\ \E k \in DOMAIN applied[1].metrics :
       k \in DOMAIN AppliedWeights /\ AppliedWeights[k] = Zero
  /\ Contributing # {}
  /\ applied[1].result = Rat(1, 2)

\* the sensor's active set ends with the scalar metric noop, which has no weight
NoopAdded ==
  /\ options.scalarMetrics # <<>>
  /\ options.scalarMetrics[Len(options.scalarMetrics)].name = "noop"
  /\ "noop" \notin DOMAIN options.weights

\* the scalar list of the sensor before noop was added
ScalarsBefore == SubSeq(options.scalarMetrics, 1, Len(options.scalarMetrics) - 1)

\* the index the sensor without noop gives a reading for the same values of
\* the other metrics
IndexBefore(r) ==
  computeCoherenceIndex([k \in DOMAIN r.metrics \ {"noop"} |-> r.metrics[k]],
                        options.weights, InvertedSet(ActiveMetrics, ScalarsBefore))

\* C20 as stated: adding to a sensor's active set a scalar metric that has no
\* weight does not change the coherenceIndex of the readings the sensor
\* produces, for any values of the other metrics.
C20_Original ==
  \A c \in Calls :
    (NoopAdded /\ calls[c].reading # <<>>) =>
      calls[c].reading[1].coherenceIndex = IndexBefore(calls[c].reading[1])

\* C20, amended: adding to a sensor's active set a scalar metric that has no
\* weight does not change the coherenceIndex of the readings the sensor
\* produces, for any values of the other metrics, provided the added metric
\* carries no inverted flag or a descriptor already in the active set carries
\* one (a main metric flagged true of value 0.3 and weight 1 gives 0.7 with
\* and without noop).
C20_UnweightedScalarIrrelevant ==
  \A c \in Calls :
    (/\ NoopAdded
     /\ calls[c].reading # <<>>
     /\ \/ options.scalarMetrics[Len(options.scalarMetrics)].inverted = Undefined
        \/ anyDeclared(ActiveMetrics, ScalarsBefore)) =>
      LET r == calls[c].reading[1]
      IN  /\ r.coherenceIndex = IndexBefore(r)
          /\ options.metrics = MainNoopSetup.metrics => r.coherenceIndex = Rat(7, 10)
          /\ options.metrics = UnflaggedNoopSetup.metrics => r.coherenceIndex = Rat(1, 5)

\* the sensor of the test measured with noop in its snapshot
C20_Witness ==
  \E c \in Calls :
    /\ NoopAdded
    /\ calls[c].pc = "done"
    /\ options.metrics = MainNoopSetup.metrics
    /\ calls[c].reading[1].metrics["noop"] = Zero
    /\ calls[c].reading[1].coherenceIndex = Rat(7, 10)

\* the inverted set a direct call of computeCoherenceIndex aggregates with
EffectiveInverted == IF applied[1].inverted = <<>> THEN DEFAULT_INVERTED ELSE applied[1].inverted[1]

\* the positive constants the weights of a direct call are multiplied by
ScaleFactors == {Rat(1, 2), Rat(2, 1), Rat(100, 1)}

\* every weight of the map multiplied by factor
ScaledWeights(weights, factor) == [k \in DOMAIN weights |-> RMul(weights[k], factor)]

\* C21: for every snapshot, inverted set and weights map with at least one
\* positive weight, multiplying every weight by the same positive constant
\* leaves computeCoherenceIndex unchanged (weights a 0.3, b 0.7 and a 0.6,
\* b 1.4 give the same index; a and b are goalDrift and memoryRetention here).
C21_WeightScaling ==
  /\ (/\ applied # <<>>
      /\ \A k \in DOMAIN AppliedWeights : AppliedWeights[k] # UndefinedNumber
      /\ \E k \in DOMAIN AppliedWeights : RLt(Zero, AppliedWeights[k])) =>
       \A factor \in ScaleFactors :
         computeCoherenceIndex(applied[1].metrics, ScaledWeights(AppliedWeights, factor),
                               EffectiveInverted)
           = applied[1].result
  /\ (applied # <<>> /\ {"goalDrift", "memoryRetention"} \subseteq DOMAIN applied[1].metrics) =>
       computeCoherenceIndex(applied[1].metrics,
                             [goalDrift |-> Rat(3, 10), memoryRetention |-> Rat(7, 10)],
                             EffectiveInverted)
         = computeCoherenceIndex(applied[1].metrics,
                                 [goalDrift |-> Rat(6, 10), memoryRetention |-> Rat(14, 10)],
                                 EffectiveInverted)

\* two metrics of different weights contributed to an index inside (0,1)
C21_Witness ==
  /\ applied # <<>>
  /\ \A k \in DOMAIN AppliedWeights : AppliedWeights[k] # UndefinedNumber
  /\ \E k1, k2 \in Contributing : AppliedWeights[k1] # AppliedWeights[k2]
  /\ RLt(Zero, applied[1].result)
  /\ RLt(applied[1].result, One)

\* C22: for fixed non-negative weights and a fixed inverted set, raising the
\* value of a direct metric or lowering the value of an inverted metric, all
\* other values held fixed, never decreases computeCoherenceIndex.
C22_Monotonic ==
  applied # <<>> =>
    \A k \in DOMAIN applied[1].metrics, v \in IndexValues :
      (IF k \in EffectiveInverted
       THEN RLe(v, applied[1].metrics[k])
       ELSE RLe(applied[1].metrics[k], v)) =>
        RLe(applied[1].result,
            computeCoherenceIndex(Put(applied[1].metrics, k, v), AppliedWeights,
                                  EffectiveInverted))

\* an inverted metric at 1 and a direct metric at 0 give index 0, and lowering
\* the inverted one or raising the direct one gives strictly more
C22_Witness ==
  /\ applied # <<>>
  /\ applied[1].result = Zero
  /\ \E k1, k2 \in Contributing :
       /\ k1 \in EffectiveInverted /\ applied[1].metrics[k1] = One
       /\ k2 \notin EffectiveInverted /\ applied[1].metrics[k2] = Zero
       /\ RLt(Zero, computeCoherenceIndex(Put(applied[1].metrics, k1, Zero), AppliedWeights,
                                          EffectiveInverted))
       /\ RLt(Zero, computeCoherenceIndex(Put(applied[1].metrics, k2, One), AppliedWeights,
                                          EffectiveInverted))

\* the snapshot of a direct call with the value of k replaced by v, aggregated
\* with k direct and with k inverted
AsDirect(k, v) ==
  computeCoherenceIndex(Put(applied[1].metrics, k, v), AppliedWeights, EffectiveInverted \ {k})
AsInverted(k, v) ==
  computeCoherenceIndex(Put(applied[1].metrics, k, v), AppliedWeights, EffectiveInverted \cup {k})

\* C23: inverting a metric and simultaneously flipping its raw value preserves
\* the index: for a single weighted metric, aggregating value v as direct
\* gives the same index as aggregating value 1 - v as inverted (equivalently,
\* aggregating v as inverted gives 1 minus aggregating v as direct).
C23_InvertAndFlip ==
  /\ (applied # <<>> /\ Cardinality(Contributing) = 1) =>
       LET k == CHOOSE x \in Contributing : TRUE
           v == applied[1].metrics[k]
       IN  /\ applied[1].result = IF k \in EffectiveInverted THEN AsInverted(k, v) ELSE AsDirect(k, v)
           /\ AsDirect(k, v) = AsInverted(k, RSub(One, v))
           /\ AsInverted(k, v) = RSub(One, AsDirect(k, v))
  /\ \A c \in Calls :
       (calls[c].reading # <<>> /\ DOMAIN options.weights = {"sig"}) =>
         LET r == calls[c].reading[1]
             flipped == [sig |-> RSub(One, r.metrics["sig"])]
         IN  r.coherenceIndex =
               computeCoherenceIndex(flipped, options.weights, {"sig"} \ calls[c].invertedSet)

\* a single weighted direct metric of value 0 next to unweighted entries
C23_Witness ==
  /\ applied # <<>>
  /\ Cardinality(Contributing) = 1
  /\ Cardinality(DOMAIN applied[1].metrics) > 1
  /\ \E k \in Contributing : k \notin EffectiveInverted /\ applied[1].metrics[k] = Zero
  /\ applied[1].result = Zero

\* a direct call on a snapshot of one metric that has a non-zero weight
SingleMetricCall ==
  /\ applied # <<>>
  /\ Cardinality(DOMAIN applied[1].metrics) = 1
  /\ Contributing = DOMAIN applied[1].metrics

\* index(value, inverted) of the single-metric snapshot of the call
SingleIndex(value, inverted) ==
  LET k == CHOOSE x \in DOMAIN applied[1].metrics : TRUE
  IN  computeCoherenceIndex([x \in {k} |-> value], AppliedWeights,
                            IF inverted THEN {k} ELSE {})

\* C24 as stated: for a single-metric snapshot with value v in [0,1] and a
\* non-zero weight, index(v, inverted=false) equals
\* 1 - index(1 - v, inverted=true).
C24_Original ==
  SingleMetricCall =>
    LET v == applied[1].metrics[CHOOSE x \in DOMAIN applied[1].metrics : TRUE]
    IN  SingleIndex(v, FALSE) = RSub(One, SingleIndex(RSub(One, v), TRUE))

\* C24, amended: for a single-metric snapshot with value v in [0,1] and a
\* non-zero weight, index(v, inverted=false) equals index(1 - v,
\* inverted=true), both being v, and equals 1 - index(v, inverted=true); it
\* equals 1 - index(1 - v, inverted=true) only for v = 0.5.
C24_SingleMetricSymmetry ==
  SingleMetricCall =>
    LET k == CHOOSE x \in DOMAIN applied[1].metrics : TRUE
        v == applied[1].metrics[k]
    IN  /\ applied[1].result = SingleIndex(v, k \in EffectiveInverted)
        /\ SingleIndex(v, FALSE) = v
        /\ SingleIndex(v, FALSE) = SingleIndex(RSub(One, v), TRUE)
        /\ SingleIndex(v, FALSE) = RSub(One, SingleIndex(v, TRUE))
        /\ (SingleIndex(v, FALSE) = RSub(One, SingleIndex(RSub(One, v), TRUE))) = (v = Rat(1, 2))

\* a single inverted metric of weight 0.25 and value 0 gave index 1
C24_Witness ==
  /\ SingleMetricCall
  /\ \E k \in DOMAIN applied[1].metrics :
       /\ k \in EffectiveInverted
       /\ AppliedWeights[k] = Rat(1, 4)
       /\ applied[1].metrics[k] = Zero
  /\ applied[1].result = One

\* the latest direct call is a call of classifyBand
BandCall == invoked # <<>> /\ invoked[1].fn = "classifyBand"

\* the thresholds a direct call of classifyBand classifies with
InvokedThresholds ==
  IF invoked[1].args[2] = <<>>
  THEN [green |-> Rat(8, 10), yellow |-> Rat(6, 10), orange |-> Rat(4, 10)]
  ELSE invoked[1].args[2][1]

\* C25: for thresholds green > yellow > orange and every index x,
\* classifyBand returns exactly one band: green iff x >= green, yellow iff
\* yellow <= x < green, orange iff orange <= x < yellow, red iff x < orange;
\* each threshold is an inclusive lower bound and the defaults are 0.8, 0.6,
\* 0.4.
C25_BandPartition ==
  (/\ BandCall
   /\ RLt(InvokedThresholds.orange, InvokedThresholds.yellow)
   /\ RLt(InvokedThresholds.yellow, InvokedThresholds.green)) =>
    LET x == invoked[1].args[1]
        t == InvokedThresholds
        band == invoked[1].result
    IN  /\ band \in {"green", "yellow", "orange", "red"}
        /\ (band = "green") = RLe(t.green, x)
        /\ (band = "yellow") = (RLe(t.yellow, x) /\ RLt(x, t.green))
        /\ (band = "orange") = (RLe(t.orange, x) /\ RLt(x, t.yellow))
        /\ (band = "red") = RLt(x, t.orange)

\* an index equal to the default yellow threshold was classified yellow
C25_Witness ==
  /\ BandCall
  /\ invoked[1].args = <<Rat(3, 5), <<>>>>
  /\ invoked[1].result = "yellow"

bandOrder == [red |-> 0, orange |-> 1, yellow |-> 2, green |-> 3]

\* C26: classifyBand is monotonic: for all a <= b and any fixed thresholds,
\* the band of a is never better than the band of b (rank red < orange <
\* yellow < green).
C26_BandMonotonic ==
  BandCall =>
    \A b \in BandValues :
      RLe(invoked[1].args[1], b) =>
        bandOrder[invoked[1].result] <= bandOrder[classifyBand(b, InvokedThresholds)]

\* an index classified orange below an index classified yellow
C26_Witness ==
  /\ BandCall
  /\ invoked[1].result = "orange"
  /\ \E b \in BandValues :
       /\ RLt(invoked[1].args[1], b)
       /\ classifyBand(b, InvokedThresholds) = "yellow"

\* C27: all scalar metrics of one measure() call run concurrently: every
\* scalar metric's compute is started before the call waits for any scalar
\* result, so a scalar that suspends does not delay the start of any other
\* scalar, and the snapshot receives all their values once all have resolved.
C27_ScalarsConcurrent ==
  \A c \in Calls :
    LET k == calls[c]
        n == Len(options.scalarMetrics)
        started == Count(k.trace, "scalar")
    IN  /\ started \in {0, n}
        /\ k.pc = "scalar" =>
             /\ started = n
             /\ k.pendingScalars # {}
             /\ k.pendingScalars \cup DOMAIN k.scalarResults = 1..n
             /\ k.pendingScalars \cap DOMAIN k.scalarResults = {}
             /\ DOMAIN k.snapshot = {ActiveMetrics[i].name : i \in 1..Len(ActiveMetrics)}
        /\ k.reading # <<>> =>
             /\ k.pendingScalars = {}
             /\ \A i \in 1..n :
                  LET name == options.scalarMetrics[i].name
                  IN  k.reading[1].metrics[name] =
                        k.scalarResults[LastIndex(options.scalarMetrics, name)]

\* the second scalar metric has resolved while the first is still suspended
C27_Witness ==
  \E c \in Calls :
    /\ Len(options.scalarMetrics) = 2
    /\ calls[c].pc = "scalar"
    /\ calls[c].pendingScalars = {1}
    /\ DOMAIN calls[c].scalarResults = {2}

\* C28: when onReading is configured, each measure() call that reaches the
\* record step invokes onReading exactly once, with the same reading that was
\* recorded in history and that the call returns, and measure() does not
\* return before onReading has completed.
C28_NotifiedOnce ==
  /\ [](\A c \in Calls :
          LET k == calls[c]
          IN  /\ Len(k.notified) = Count(k.trace, "onReading")
              /\ (options.onReading /\ c \in Range(recorded)) =>
                   /\ Len(k.notified) = 1
                   /\ k.notified[1] = k.reading[1]
              /\ (~options.onReading \/ c \notin Range(recorded)) => k.notified = <<>>
              /\ (options.onReading /\ Settled(k) /\ c \in Range(recorded)) => k.notifyDone
              /\ (k.pc = "done" /\ options.onReading) =>
                   /\ k.notifyDone
                   /\ k.raised = ""
                   /\ k.notified = k.reading)
  /\ [][\A c \in Calls :
          Len(calls'[c].notified) # Len(calls[c].notified) =>
            /\ calls[c].notified = <<>>
            /\ Len(recorded') = Len(recorded) + 1
            /\ recorded'[Len(recorded')] = c
            /\ options.historySize >= 1 =>
                 readings'[Len(readings')] = calls'[c].notified[1]]_vars

\* a call returned the reading onReading was invoked with, while the buffer
\* holds it as its newest entry
C28_Witness ==
  \E c \in Calls :
    /\ options.onReading
    /\ calls[c].pc = "done"
    /\ calls[c].notifyDone
    /\ readings # <<>>
    /\ readings[Len(readings)] = calls[c].notified[1]
    /\ Len(recorded) = 2

\* C29: every built-in metric returns 0 on empty or insufficient input:
\* goalDrift is 0 when the goal list or the context list is empty,
\* memoryRetention is 0 when the goal list or the goal-relevant memory list is
\* empty, and contradictionPressure and semanticDiffusion are 0 when there are
\* fewer than two context embeddings; none of them raises.
C29_ZeroOnEmptyInput ==
  /\ (invoked # <<>> /\ invoked[1].fn # "classifyBand") =>
       LET fn == invoked[1].fn
           args == invoked[1].args
       IN  /\ (fn \in {"computeGoalDrift", "computeMemoryRetention"}
                 /\ (args[1] = <<>> \/ args[2] = <<>>)) => invoked[1].result = Zero
           /\ (fn \in {"computeContradictionPressure", "computeSemanticDiffusion"}
                 /\ Len(args[1]) < 2) => invoked[1].result = Zero
  /\ \A c \in Calls :
       (ActiveMetrics = DEFAULT_METRICS /\ calls[c].pc \notin {"idle", "fetch", "embed"}
          /\ Fetched(c) /\ calls[c].raised # "embedBatch") =>
         LET input == calls[c].input
             m == calls[c].snapshot
         IN  /\ calls[c].raised # "metric"
             /\ Count(calls[c].trace, "compute") = 4
             /\ (input.goalEmbeddings = <<>> \/ input.contextEmbeddings = <<>>)
                  => m["goalDrift"] = Zero
             /\ (input.goalEmbeddings = <<>> \/ input.goalRelevantMemoryEmbeddings = <<>>)
                  => m["memoryRetention"] = Zero
             /\ Len(input.contextEmbeddings) < 2 =>
                  (m["contradictionPressure"] = Zero /\ m["semanticDiffusion"] = Zero)

\* computeGoalDrift was called with goals and no context
C29_Witness ==
  /\ invoked # <<>>
  /\ invoked[1].fn = "computeGoalDrift"
  /\ invoked[1].args[1] # <<>>
  /\ invoked[1].args[2] = <<>>
  /\ invoked[1].result = Zero

\* C30: nothing downstream runs after a fetch or embedding failure: if a state
\* accessor raises, embedBatch is never invoked in that call, and if a state
\* accessor or embedBatch raises, no vector or scalar metric's compute is
\* invoked in that call.
C30_NothingDownstream ==
  \A c \in Calls :
    LET k == calls[c]
    IN  /\ k.raised \in Accessors =>
             /\ "embedBatch" \notin Range(k.trace)
             /\ ~k.embedded
             /\ \A e \in Range(k.trace) : StageOf(e) = 1
        /\ k.raised \in Accessors \cup {"embedBatch"} =>
             /\ "compute" \notin Range(k.trace)
             /\ "scalar" \notin Range(k.trace)
             /\ k.pendingScalars = {}
             /\ k.snapshot = NewSnapshot
             /\ k.pc = "rejected"
        /\ k.raised = "embedBatch" => \A e \in Range(k.trace) : StageOf(e) <= 2

\* the provider raised in a sensor that has vector and scalar metrics to run
C30_Witness ==
  \E c \in Calls :
    /\ calls[c].raised = "embedBatch"
    /\ calls[c].pc = "rejected"
    /\ "embedBatch" \in Range(calls[c].trace)
    /\ Len(ActiveMetrics) > 0
    /\ Len(options.scalarMetrics) > 0

\* call c has built its MetricInput
InputBuilt(c) ==
  /\ calls[c].pc \notin {"idle", "fetch", "embed"}
  /\ Fetched(c)
  /\ calls[c].raised # "embedBatch"

\* the vectors the provider returned to call c, none if it was not asked
ProviderVectors(c) ==
  IF calls[c].embedded THEN embedBatch(options.embedder, calls[c].uniqueTexts) ELSE <<>>

\* the list vectors is aligned with the list texts: entry i is the vector the
\* provider returned for texts[i], the empty vector if it returned none
Aligned(c, vectors, texts) ==
  /\ Len(vectors) = Len(texts)
  /\ \A i \in 1..Len(texts) :
       LET u == calls[c].uniqueTexts
           at == FirstIndex(u, texts[i])
       IN  vectors[i] = IF at <= Len(ProviderVectors(c)) THEN ProviderVectors(c)[at] ELSE <<>>

\* C31: each of the four vector lists of MetricInput has the same length as
\* its text list and is positionally aligned with it, duplicates included:
\* entry i is the vector embedBatch returned for text i, and a text for which
\* the provider returned no vector resolves to an empty vector instead of
\* raising an error.
C31_InputAligned ==
  \A c \in Calls :
    (StateTexts # <<>> /\ InputBuilt(c)) =>
      /\ Aligned(c, calls[c].input.goalEmbeddings, options.state["getGoals"])
      /\ Aligned(c, calls[c].input.contextEmbeddings, options.state["getRecentContext"])
      /\ Aligned(c, calls[c].input.goalRelevantMemoryEmbeddings,
                 options.state["getGoalRelevantMemories"])
      /\ Aligned(c, calls[c].input.memoryEmbeddings, options.state["getAllMemories"])
      /\ calls[c].error \notin {"embedBatch"} \cup Accessors

\* the provider returned no vector for "b": the context b, a, b resolved to
\* an empty vector, the vector of "a", an empty vector
C31_Witness ==
  \E c \in Calls :
    /\ calls[c].pc = "done"
    /\ options.embedder = "short"
    /\ options.state["getRecentContext"] = <<"b", "a", "b">>
    /\ calls[c].input.contextEmbeddings = << <<>>, <<1, 0>>, <<>> >>
    /\ calls[c].input.memoryEmbeddings = << <<>>, <<>> >>

\* the values metric.compute(input) of a vector descriptor can return in call c
ComputeValues(c, metric) ==
  IF metric.impl = "custom" THEN metric.returns
  ELSE {MetricCompute(metric, calls[c].input, Zero)}

\* C32: vector metrics are evaluated in list order against the same
\* MetricInput and colliding names are last-write-wins: when two active vector
\* descriptors share a name, the snapshot holds one entry for that name, with
\* the value computed by the descriptor later in the list.
C32_VectorLastWriteWins ==
  \A c \in Calls :
    LET k == calls[c]
        ran == Count(k.trace, "compute")
    IN  /\ (InputBuilt(c) /\ k.raised # "metric") =>
             /\ ran = Len(ActiveMetrics)
             /\ NamesOf(ActiveMetrics, ran) \subseteq DOMAIN k.snapshot
             /\ \A name \in NamesOf(ActiveMetrics, ran)
                            \ NamesOf(options.scalarMetrics, Len(options.scalarMetrics)) :
                  k.snapshot[name] \in
                    ComputeValues(c, ActiveMetrics[LastIndex(ActiveMetrics, name)])
        /\ k.raised = "metric" =>
             /\ ran \in 1..Len(ActiveMetrics)
             /\ DOMAIN k.snapshot = NamesOf(ActiveMetrics, ran - 1)
             /\ \A name \in DOMAIN k.snapshot :
                  LET list == SubSeq(ActiveMetrics, 1, ran - 1)
                  IN  k.snapshot[name] \in ComputeValues(c, list[LastIndex(list, name)])

\* two vector descriptors named goalDrift, returning 3/10 and 4/5: both
\* computes ran and the one entry of that name holds 4/5
C32_Witness ==
  \E c \in Calls :
    /\ calls[c].pc = "done"
    /\ Len(ActiveMetrics) = 2
    /\ ActiveMetrics[1].name = ActiveMetrics[2].name
    /\ ActiveMetrics[1].returns = {Rat(3, 10)}
    /\ Count(calls[c].trace, "compute") = 2
    /\ calls[c].snapshot = [goalDrift |-> Rat(4, 5)]

\* the reading measure() assembles from a tick and a snapshot under the
\* configuration of the sensor: lines 134-160, which read neither the buffer
\* nor anything an earlier call left behind
ReadingOf(tick, snapshot) ==
  LET invertedSet == InvertedSet(ActiveMetrics, options.scalarMetrics)
      coherenceIndex == computeCoherenceIndex(snapshot, options.weights, invertedSet)
  IN  CoherenceReading(tick, snapshot, coherenceIndex,
                       classifyBand(coherenceIndex, options.thresholds))

\* a reading without the fields that identify its tick
Measured(r) == [metrics |-> r.metrics, coherenceIndex |-> r.coherenceIndex, band |-> r.band]

\* C33: each measure() call is an independent measurement: the reading it
\* returns is determined by the tick, the values the collaborators return
\* during that call and the construction-time configuration, and does not
\* depend on the contents of history or on any earlier measure() call on that
\* sensor.
C33_Independent ==
  /\ \A c \in 1..issued :
       (calls[c].reading # <<>> /\ ~calls[c].mutated) =>
         calls[c].reading[1] = ReadingOf(Tick(c), calls[c].snapshot)
  /\ \A c \in 2..issued :
       (calls[c].reading # <<>> /\ calls[c - 1].reading # <<>>
          /\ ~calls[c].mutated /\ ~calls[c - 1].mutated
          /\ calls[c].input = calls[c - 1].input
          /\ calls[c].scalarResults = calls[c - 1].scalarResults) =>
         Measured(calls[c].reading[1]) = Measured(calls[c - 1].reading[1])

\* the second call on a sensor whose buffer holds a reading of index 1 reads
\* s1 = 4/5 and returns index 1/5
C33_Witness ==
  /\ options.awaits
  /\ issued >= 2
  /\ calls[1].pc = "done" /\ calls[2].pc = "done"
  /\ calls[1].reading[1].coherenceIndex = One
  /\ calls[2].reading[1].coherenceIndex = Rat(1, 5)
  /\ calls[2].scalarResults = <<Rat(4, 5)>>

\* reading r is what call c assembled: the fields of its tick, its snapshot,
\* and the band of its own index under the configured thresholds
Consistent(r, c) ==
  /\ r.ts = Tick(c).ts
  /\ r.tickSeq = Tick(c).seq
  /\ r.metrics = calls[c].snapshot
  /\ r.band = classifyBand(r.coherenceIndex, options.thresholds)

\* the consumer has not written to any reading of the sensor
Untouched == \A c \in Calls : ~calls[c].mutated

C35_HistoryHoldsCopies ==
  returned # <<>> =>
    \A i \in DOMAIN returned[1].result :
      LET c == recorded[Len(recorded) + 1 - i]
      IN  returned[1].result[i] = ReadingOf(Tick(c), calls[c].snapshot)

\* the smaller of two numbers
Min(a, b) == IF a < b THEN a ELSE b

\* C36: for any interleaving of overlapping measure() calls on one sensor,
\* every call that reaches the record step contributes exactly one reading to
\* the recording sequence (none lost, none duplicated, none carrying another
\* call's tick or metric values), because append plus eviction runs without
\* an intervening suspension point.
C36_OneReadingPerCall ==
  /\ \A c \in Calls :
       /\ Count(calls[c].trace, "push") = Count(recorded, c)
       /\ Count(recorded, c) = IF calls[c].reading # <<>> THEN 1 ELSE 0
  /\ Len(readings) = Min(options.historySize, Len(recorded))
  /\ Untouched =>
       \A i \in DOMAIN readings :
         LET c == recorded[Len(recorded) - Len(readings) + i]
         IN  /\ readings[i].tickSeq = Tick(c).seq
             /\ readings[i].ts = Tick(c).ts
             /\ readings[i].metrics = calls[c].snapshot
             /\ readings[i] = calls[c].reading[1]

\* two overlapping calls, the second of which recorded first: the buffer
\* holds the reading of tick 1 and then the reading of tick 0, while the
\* first call is still awaiting its notification
C36_Witness ==
  /\ ~options.awaits
  /\ recorded = <<2, 1>>
  /\ Len(readings) = 2
  /\ readings[1].tickSeq = 1
  /\ readings[2].tickSeq = 0
  /\ calls[1].pc = "notify"
  /\ calls[2].pc = "notify"

\* C37: the snapshot does not depend on the completion order of the scalar
\* metrics: scalar results are written only after all scalars have resolved,
\* after all vector results and in scalar-list order, so a scalar overrides a
\* same-named vector metric and of two same-named scalars the one later in
\* the list wins, whichever finishes last.
C37_ScalarListOrder ==
  \A c \in Calls :
    LET k == calls[c]
        n == Len(options.scalarMetrics)
        scalarNames == NamesOf(options.scalarMetrics, n)
        vectorNames == NamesOf(ActiveMetrics, Len(ActiveMetrics))
    IN  /\ k.pc = "scalar" =>
             /\ DOMAIN k.snapshot = vectorNames
             /\ \A name \in vectorNames :
                  k.snapshot[name] \in
                    ComputeValues(c, ActiveMetrics[LastIndex(ActiveMetrics, name)])
        /\ (k.reading # <<>> /\ n > 0) =>
             /\ Range(k.scalarOrder) = 1..n
             /\ DOMAIN k.snapshot = vectorNames \cup scalarNames
             /\ \A name \in scalarNames :
                  k.snapshot[name] = k.scalarResults[LastIndex(options.scalarMetrics, name)]
             /\ \A name \in vectorNames \ scalarNames :
                  k.snapshot[name] \in
                    ComputeValues(c, ActiveMetrics[LastIndex(ActiveMetrics, name)])

\* the vector metric dup returned 1/5, the second scalar dup resolved first
\* with 3/5 and the first scalar dup last with 2/5: the snapshot holds 3/5
C37_Witness ==
  \E c \in Calls :
    /\ calls[c].pc = "done"
    /\ Len(ActiveMetrics) = 1 /\ ActiveMetrics[1].name = "dup"
    /\ calls[c].scalarOrder = <<2, 1>>
    /\ calls[c].scalarResults = <<Rat(2, 5), Rat(3, 5)>>
    /\ calls[c].snapshot = [dup |-> Rat(3, 5)]

\* the active descriptors, vector metrics first
ActiveDescriptors == ActiveMetrics \o options.scalarMetrics

\* the names that some active descriptor declares inverted
NamesFlaggedTrue ==
  {name \in NamesOf(ActiveDescriptors, Len(ActiveDescriptors)) :
     \E i \in DOMAIN ActiveDescriptors :
       ActiveDescriptors[i].name = name /\ ActiveDescriptors[i].inverted = "true"}

\* C38: in declared mode the polarity of a colliding name is decided by the
\* flags of all same-named active descriptors, not by the descriptor whose
\* value ended up in the snapshot: the name is inverted iff at least one
\* active descriptor with that name has inverted == true, even when the last
\* writer of the value has inverted == false or no flag.
C38_CollidingPolarity ==
  \A c \in Calls :
    LET k == calls[c]
    IN  (k.reading # <<>> /\ ~k.mutated /\ anyDeclared(ActiveMetrics, options.scalarMetrics)) =>
          /\ k.invertedSet = NamesFlaggedTrue
          /\ k.reading[1].coherenceIndex =
               computeCoherenceIndex(k.snapshot, options.weights, NamesFlaggedTrue)
          /\ \A name \in NamesFlaggedTrue :
               (DOMAIN options.weights = {name} /\ RLt(Zero, options.weights[name])) =>
                 k.reading[1].coherenceIndex = RSub(One, k.snapshot[name])

\* dup is declared inverted by the vector descriptor only; its value 3/5 was
\* written by the scalar descriptor flagged false, and the index is 2/5
C38_Witness ==
  \E c \in Calls :
    /\ calls[c].pc = "done"
    /\ Len(options.scalarMetrics) = 2
    /\ options.scalarMetrics[2].name = "dup"
    /\ options.scalarMetrics[2].inverted = "false"
    /\ calls[c].snapshot = [dup |-> Rat(3, 5)]
    /\ calls[c].invertedSet = {"dup"}
    /\ calls[c].reading[1].coherenceIndex = Rat(2, 5)

\* C39: if every state accessor call, the embedBatch call, every scalar
\* compute and the onReading call of a measure() call eventually settle, then
\* that measure() call eventually settles (returns a reading or rejects); as
\* no timeout or cancellation exists, a collaborator call that never settles
\* leaves the measure() call pending forever, and if it is before the record
\* step nothing is recorded for it.
C39_SettlesIfCollaboratorsDo ==
  /\ \A c \in Calls : (calls[c].pc # "idle") ~> Settled(calls[c])
  /\ [][\A c \in Calls :
          (calls[c].pc # "idle" /\ calls'[c].pc # calls[c].pc) =>
            CollaboratorSettled(c)]_vars
  /\ [](\A c \in Calls :
          calls[c].pc \in {"fetch", "embed", "scalar"} =>
            /\ Awaited(calls[c]) > 0
            /\ calls[c].reading = <<>>
            /\ c \notin Range(recorded))

\* a call returned after its four accessors, embedBatch, its two scalar
\* computes and onReading had all settled
C39_Witness ==
  \E c \in Calls :
    /\ calls[c].pc = "done"
    /\ calls[c].embedded
    /\ Len(calls[c].scalarOrder) = 2
    /\ calls[c].notifyDone
    /\ Awaited(calls[c]) = 0

\* C40: when one scalar metric raises while other scalars of the same
\* measure() call are still pending, measure() rejects without waiting for
\* them, and their later completion (success or failure) records nothing in
\* history, invokes no callback and changes no reading of any other call.
C40_LateScalarsIgnored ==
  /\ [](\A c \in Calls :
          calls[c].raised = "scalarMetric" =>
            /\ calls[c].pc = "rejected"
            /\ calls[c].error = "scalarMetric"
            /\ calls[c].reading = <<>>
            /\ calls[c].notified = <<>>
            /\ Count(calls[c].trace, "push") = 0
            /\ Count(calls[c].trace, "onReading") = 0
            /\ Count(recorded, c) = 0
            /\ Count(settled, c) = 1)
  /\ [][\A c \in Calls :
          (calls[c].raised = "scalarMetric"
             /\ calls'[c].pendingScalars # calls[c].pendingScalars) =>
            /\ readings' = readings
            /\ recorded' = recorded
            /\ settled' = settled
            /\ calls' = [calls EXCEPT ![c].pendingScalars = calls'[c].pendingScalars]]_vars

\* the first of two scalar computes raised while no scalar had resolved, the
\* call was rejected, and the other compute has settled since
C40_Witness ==
  \E c \in Calls :
    /\ Len(options.scalarMetrics) = 2
    /\ calls[c].raised = "scalarMetric"
    /\ calls[c].pc = "rejected"
    /\ calls[c].scalarResults = <<>>
    /\ calls[c].pendingScalars = {}
    /\ readings = <<>>

====
